---------------------------- MODULE Spec2Model ----------------------------
(* Verification model of the OptiLens chat assistant (chatboot-optilens).   *)
(*                                                                          *)
(* A text is a sequence of atoms.  An atom is one character ("<", "a",      *)
(* "SP" for a space, "LF" for a newline, "CYR" for a Cyrillic letter ...)   *)
(* or one word of a fixed template or of a catalog field, which holds no    *)
(* whitespace, no control character and no protocol token.                  *)
EXTENDS Integers, Sequences, FiniteSets, TLC

(***************************************************************************)
(* Bounds of the model                                                     *)
(***************************************************************************)
\* pieces the provider may emit over one generation
MaxPieces == 3
\* pieces in one provider fragment
MaxChunkPieces == 2
\* hits handed to the answer builder
MaxHits == 2
\* sessions, concurrent requests, provider fragments per turn, calls of the message route
MaxChats == 2
MaxTurns == 2
MaxChunks == 2
MaxApiCalls == 1

(***************************************************************************)
(* Generic helpers                                                         *)
(***************************************************************************)
Langs == {"fr", "en", "ar", "dz"}

NoValue == "(none)"

RECURSIVE Concat(_)
Concat(ss) == IF ss = <<>> THEN <<>> ELSE Head(ss) \o Concat(Tail(ss))

StartsWith(s, pat) ==
    /\ Len(pat) <= Len(s)
    /\ SubSeq(s, 1, Len(pat)) = pat

Drop(s, n) == SubSeq(s, n + 1, Len(s))

RECURSIVE Contains(_, _)
Contains(s, pat) ==
    IF Len(s) < Len(pat) THEN FALSE
    ELSE StartsWith(s, pat) \/ Contains(Tail(s), pat)

\* String.prototype.replace(/literal/g, ""): left to right, non-overlapping, one pass
RECURSIVE RemoveAll(_, _)
RemoveAll(s, pat) ==
    IF s = <<>> THEN <<>>
    ELSE IF StartsWith(s, pat) THEN RemoveAll(Drop(s, Len(pat)), pat)
    ELSE <<Head(s)>> \o RemoveAll(Tail(s), pat)

\* String.prototype.replace(/[class]/g, "")
RemoveChars(s, class) == SelectSeq(s, LAMBDA c : c \notin class)

\* length of the longest prefix of s made of atoms of class
RECURSIVE RunLen(_, _)
RunLen(s, class) ==
    IF s = <<>> \/ Head(s) \notin class THEN 0
    ELSE 1 + RunLen(Tail(s), class)

RECURSIVE Repeat(_, _)
Repeat(c, n) == IF n <= 0 THEN <<>> ELSE <<c>> \o Repeat(c, n - 1)

(***************************************************************************)
(* Characters                                                              *)
(***************************************************************************)
Blank == {"SP", "TAB"}
\* what String.prototype.trim() strips
JsWhitespace == {"SP", "TAB", "LF", "CR"}
CyrillicCJK == {"CYR", "HAN", "HIRA", "KATA", "HANGUL"}
\* fixed phrases of the Arabic and Darija answers, written in Arabic script
ArabicPhrases ==
    {"[ar] not found in the database, cannot confirm the stock; give me the reference/SKU",
     "[dz] not found in the data, cannot confirm the stock; give me the reference/SKU",
     "[ar] According to the database: the current quantity of", "[ar] is",
     "[ar] According to the database, these are the current quantities (best results):",
     "[ar] Yes, available now. The stock of", "[ar] Currently not available (stock",
     "[ar] of", "[ar] I have no clear stock number for this product in the database.",
     "[dz] According to the data: the quantity of", "[dz] is",
     "[dz] According to the data, these are the quantities (best results):",
     "[dz] Yes available now. The stock of", "[dz] Now it is not available (stock",
     "[dz] of", "[dz] There is no clear stock number in the data for this product."}
\* an atom of Arabic script: one letter, or a phrase made of such letters
ArabicScript == {"ARB"} \cup ArabicPhrases

ImStart == <<"<", "|", "i", "m", "_", "s", "t", "a", "r", "t", "|", ">">>
ImEnd == <<"<", "|", "i", "m", "_", "e", "n", "d", "|", ">">>
AssistantTok == <<"<", "|", "a", "s", "s", "i", "s", "t", "a", "n", "t", "|", ">">>
UserTok == <<"<", "|", "u", "s", "e", "r", "|", ">">>
SystemTok == <<"<", "|", "s", "y", "s", "t", "e", "m", "|", ">">>
EndOfText == <<"<", "|", "e", "n", "d", "o", "f", "t", "e", "x", "t", "|", ">">>

ProtocolTokens == {ImStart, ImEnd, AssistantTok, UserTok, SystemTok, EndOfText}

RECURSIVE Trim(_)
Trim(s) ==
    IF s = <<>> THEN s
    ELSE IF Head(s) \in JsWhitespace THEN Trim(Tail(s))
    ELSE IF s[Len(s)] \in JsWhitespace THEN Trim(SubSeq(s, 1, Len(s) - 1))
    ELSE s

(***************************************************************************)
(* Response cleaning (route.ts)                                            *)
(***************************************************************************)
sanitizeAssistantChunk(text) ==
    LET s1 == RemoveAll(text, ImStart)
        s2 == RemoveAll(s1, ImEnd)
        s3 == RemoveAll(s2, AssistantTok)
        s4 == RemoveAll(s3, UserTok)
        s5 == RemoveAll(s4, SystemTok)
        s6 == RemoveAll(s5, EndOfText)
        s7 == RemoveChars(s6, {"NUL"})
    IN  RemoveChars(s7, {"CR"})

filterDisallowedScriptsByLanguage(text, lang) ==
    IF lang \in {"ar", "dz"} THEN RemoveChars(text, CyrillicCJK)
    ELSE RemoveChars(text, ArabicScript \cup CyrillicCJK)

\* .replace(/[ \t]{2,}/g, " ")
RECURSIVE CollapseBlanks(_)
CollapseBlanks(s) ==
    IF s = <<>> THEN <<>>
    ELSE LET r == RunLen(s, Blank)
         IN  IF r >= 2 THEN <<"SP">> \o CollapseBlanks(Drop(s, r))
             ELSE <<Head(s)>> \o CollapseBlanks(Tail(s))

\* .replace(/[ \t]+\n/g, "\n")
RECURSIVE StripBlanksBeforeNewline(_)
StripBlanksBeforeNewline(s) ==
    IF s = <<>> THEN <<>>
    ELSE LET r == RunLen(s, Blank)
         IN  IF r >= 1 /\ r < Len(s) /\ s[r + 1] = "LF"
             THEN <<"LF">> \o StripBlanksBeforeNewline(Drop(s, r + 1))
             ELSE <<Head(s)>> \o StripBlanksBeforeNewline(Tail(s))

\* .replace(/\n{4,}/g, "\n\n\n")
RECURSIVE CollapseNewlines(_)
CollapseNewlines(s) ==
    IF s = <<>> THEN <<>>
    ELSE LET r == RunLen(s, {"LF"})
         IN  IF r >= 4 THEN <<"LF", "LF", "LF">> \o CollapseNewlines(Drop(s, r))
             ELSE IF r >= 1 THEN Repeat("LF", r) \o CollapseNewlines(Drop(s, r))
             ELSE <<Head(s)>> \o CollapseNewlines(Tail(s))

normalizeWhitespaceAfterFiltering(text) ==
    CollapseNewlines(StripBlanksBeforeNewline(CollapseBlanks(text)))

postProcessAssistantText(text, lang) ==
    Trim(normalizeWhitespaceAfterFiltering(
            filterDisallowedScriptsByLanguage(sanitizeAssistantChunk(text), lang)))

postProcessAssistantChunk(text, lang) ==
    normalizeWhitespaceAfterFiltering(
        filterDisallowedScriptsByLanguage(sanitizeAssistantChunk(text), lang))

\* the raw fragment accumulated instead of the cleaned one
AccumulateChunk_Raw(full, cleanedChunk, chunk) == full \o chunk

\* route.ts 730: full += cleanedChunk
AccumulateChunk(full, cleanedChunk, chunk) == full \o cleanedChunk

\* route.ts 728-731, one pass of the for-await loop on a fragment: the cleaned fragment,
\* whether it is enqueued (an empty one is skipped), and the text accumulated so far
StreamChunkStep(full, chunk, lang) ==
    LET cleanedChunk == postProcessAssistantChunk(chunk, lang)
    IN  [cleaned |-> cleanedChunk,
         enqueue |-> cleanedChunk # <<>>,
         full |-> IF cleanedChunk = <<>> THEN full
                  ELSE AccumulateChunk(full, cleanedChunk, chunk)]


(***************************************************************************)
(* User texts                                                              *)
(* A user text is a sequence of words.  A regular expression of the code   *)
(* is evaluated on the words: \bstock\b holds when the word "stock" is in  *)
(* the text.  Words written in Arabic script carry the prefix "ar_"; a ' in  *)
(* a word marks its accented letter ("quantite'" stands for the accented spelling).              *)
(***************************************************************************)
ArabicWords == {"ar_hal", "ar_hadha", "ar_mutawaffir", "ar_si3r", "ar_kamiya", "ar_marhaba",
                "ar_bil3arabiya", "ar_3arabi", "ar_bildarija"}
AccentWords == {"quantite'", "disponibilite'", "franc'ais", "cou't"}

HasWord(t, w) == \E i \in 1..Len(t) : t[i] = w
HasAny(t, ws) == \E i \in 1..Len(t) : t[i] \in ws
\* w1 directly followed by w2 (w1\s+w2)
HasPair(t, w1, w2) == \E i \in 1..(Len(t) - 1) : t[i] = w1 /\ t[i + 1] = w2
\* w1 followed somewhere later by a word of ws (w1.*\b(ws)\b)
HasThen(t, w1, ws) == \E i \in 1..Len(t) : \E j \in (i + 1)..Len(t) : t[i] = w1 /\ t[j] \in ws

\* number of characters of a word
CharLen(w) ==
    CASE w \in {"?", "a"} -> 1
      [] w \in {"en", "je", "in", "hi", "is", "it"} -> 2
      [] w \in {"sph", "cyl", "axe", "how", "svp", "des", "180"} -> 3
      [] w \in {"avez", "vous", "prix", "hoya", "many", "lens", "wach", "have"} -> 4
      [] w \in {"stock", "zeiss", "hello", "photo", "price", "-2.50", "-1.25", "salam"} -> 5
      [] w \in {"verres", "arabic", "please", "anglais"} -> 6
      [] w \in {"combien", "bonjour", "cherche", "english"} -> 7
      [] w \in {"quantite'", "quantity", "franc'ais"} -> 8
      [] w \in {"available"} -> 9
      [] w \in {"disponible"} -> 10
      [] w \in {"ar_hal"} -> 2
      [] w \in {"ar_si3r"} -> 3
      [] w \in {"ar_hadha"} -> 3
      [] w \in {"ar_kamiya"} -> 4
      [] w \in {"ar_mutawaffir", "ar_marhaba"} -> 5
      [] OTHER -> 6

\* length of the text written with single spaces; "?" is glued to the word before it
RECURSIVE TextLen(_)
TextLen(t) ==
    IF t = <<>> THEN 0
    ELSE CharLen(Head(t))
         + (IF Len(t) > 1 /\ t[2] # "?" THEN 1 ELSE 0)
         + TextLen(Tail(t))

(***************************************************************************)
(* Intent detection (route.ts)                                             *)
(***************************************************************************)
ArabicPriceWords == {"ar_si3r"}
StockWords == {"stock", "disponible", "availability", "available", "ar_mutawaffir"}

getCommercialIntent(text) ==
    [price |-> HasAny(text, {"prix", "tarif", "combien", "cou't", "cout", "price", "cost"} \cup ArabicPriceWords)
                 \/ HasPair(text, "how", "much"),
     availability |-> HasAny(text, {"available", "availability", "disponible", "disponibilite'",
                                    "disponibilite", "stock", "quantite'", "quantite", "quantity",
                                    "ar_mutawaffir"})
                        \/ HasPair(text, "in", "store") \/ HasPair(text, "in", "shop")]

\* The interrogative \bهل\b of the code needs a Latin word character next to the
\* Arabic word (\b is ASCII-only), so it matches no text made of words.
isQuestionLike(t) ==
    \/ HasWord(t, "?")
    \/ HasPair(t, "est-ce", "que") \/ HasWord(t, "avez-vous") \/ HasPair(t, "avez", "vous")
    \/ HasPair(t, "vous", "avez")
    \/ \E i \in 1..(Len(t) - 2) : t[i] = "do" /\ t[i + 1] = "you" /\ t[i + 2] = "have"
    \/ HasPair(t, "is", "it") \/ HasPair(t, "are", "they") \/ HasPair(t, "how", "many")
    \/ HasPair(t, "can", "you")
    \/ (TextLen(t) <= 20 /\ HasAny(t, StockWords))

getAvailabilityQuestionType(text) ==
    IF text = <<>> THEN NoValue
    ELSE IF ~isQuestionLike(text) THEN NoValue
    ELSE IF HasAny(text, ArabicPriceWords) THEN NoValue
    ELSE IF \/ HasAny(text, {"quantite'", "quantite", "quantity", "qty", "qte", "ch7al", "chhal", "ar_kamiya"})
            \/ HasThen(text, "combien", {"avez", "as", "a", "ont"})
            \/ \E i \in 1..(Len(text) - 2) :
                   text[i] = "combien" /\ text[i + 1] = "en" /\ text[i + 2] = "stock"
            \/ HasPair(text, "how", "many")
         THEN "quantity"
    ELSE IF \/ HasAny(text, {"available", "availability", "disponible", "disponibilite'",
                             "disponibilite", "stock", "ar_mutawaffir"})
            \/ HasPair(text, "in", "store") \/ HasPair(text, "in", "shop")
         THEN "availability"
    ELSE NoValue


(***************************************************************************)
(* Language detection (language.ts) and the turn's language (route.ts)     *)
(***************************************************************************)
\* vocabulary words that hold one of DARJA_HINTS as a substring
DarjaWords == {"wesh", "wach", "sahbi", "chhal", "ch7al", "bezzaf", "mlih", "kifach", "win",
               "rani", "rak", "rana", "khoya", "brk", "bzzf"}

\* the entries of FRENCH_HINT_WORDS a word matches ("vous" is listed twice)
FrHintsOfWord(w) ==
    CASE w = "vous" -> {"vous", "vous(2)"}
      [] w = "verres" -> {"verre", "verres"}
      [] w \in {"bonjour", "salut", "bonsoir", "merci", "svp", "stp", "je", "tu", "il", "on",
                "nous", "mon", "ma", "des", "de", "du", "la", "le", "les", "un", "une", "et",
                "ou", "pour", "avec", "sans", "dans", "verre", "monture", "ordonnance",
                "cyl", "sph", "axe"} -> {w}
      [] OTHER -> {}

\* the entries of ENGLISH_HINT_WORDS a word matches
EnHintsOfWord(w) ==
    CASE w = "lenses" -> {"lens", "lenses"}
      [] w \in {"hello", "hi", "thanks", "please", "what", "how", "which", "price", "cost",
                "available", "availability", "lens", "coating", "prescription"} -> {w}
      [] OTHER -> {}

countWordHitsFr(t) == Cardinality(UNION {FrHintsOfWord(t[i]) : i \in 1..Len(t)})

countWordHitsEn(t) ==
    Cardinality(UNION {EnHintsOfWord(t[i]) : i \in 1..Len(t)}
                \cup (IF HasPair(t, "in", "stock") THEN {"in stock"} ELSE {}))

Abs(n) == IF n < 0 THEN -n ELSE n

\* variant: the Darija markers are looked up before the Arabic script
detectLanguageInfo_DarjaFirst(text) ==
    IF text = <<>> THEN [lang |-> "fr", confidence |-> "low"]
    ELSE IF HasAny(text, DarjaWords) THEN [lang |-> "dz", confidence |-> "medium"]
    ELSE IF HasAny(text, ArabicWords) THEN [lang |-> "ar", confidence |-> "high"]
    ELSE IF HasAny(text, AccentWords) THEN [lang |-> "fr", confidence |-> "high"]
    ELSE LET frScore == countWordHitsFr(text)
             enScore == countWordHitsEn(text)
             diff == Abs(frScore - enScore)
             confidence == IF diff >= 3 THEN "high" ELSE IF diff >= 1 THEN "medium" ELSE "low"
         IN  IF frScore = 0 /\ enScore = 0 THEN [lang |-> "fr", confidence |-> "low"]
             ELSE IF frScore >= enScore THEN [lang |-> "fr", confidence |-> confidence]
             ELSE [lang |-> "en", confidence |-> confidence]

detectLanguageInfo(text) ==
    IF text = <<>> THEN [lang |-> "fr", confidence |-> "low"]
    ELSE IF HasAny(text, ArabicWords) THEN [lang |-> "ar", confidence |-> "high"]
    ELSE IF HasAny(text, DarjaWords) THEN [lang |-> "dz", confidence |-> "medium"]
    ELSE IF HasAny(text, AccentWords) THEN [lang |-> "fr", confidence |-> "high"]
    ELSE LET frScore == countWordHitsFr(text)
             enScore == countWordHitsEn(text)
             diff == Abs(frScore - enScore)
             confidence == IF diff >= 3 THEN "high" ELSE IF diff >= 1 THEN "medium" ELSE "low"
         IN  IF frScore = 0 /\ enScore = 0 THEN [lang |-> "fr", confidence |-> "low"]
             ELSE IF frScore >= enScore THEN [lang |-> "fr", confidence |-> confidence]
             ELSE [lang |-> "en", confidence |-> confidence]

\* the text without its punctuation is exactly one greeting
isGreetingLike(text) ==
    SelectSeq(text, LAMBDA w : w \notin {"?", "!"})
        \in {<<"hi">>, <<"hello">>, <<"hey">>, <<"salut">>, <<"bonjour">>, <<"bonsoir">>,
             <<"salam">>, <<"salam", "alaykoum">>, <<"assalam">>, <<"assalamu", "alaykum">>,
             <<"ar_marhaba">>}

\* route.ts 125-154.  The Arabic patterns for Arabic have no \b and match inside a text;
\* the Arabic pattern for Darija is written between two \b, which JavaScript places only
\* next to an ASCII letter, digit or underscore, so the word "ar_bildarija" standing
\* between blanks does not match it.
detectExplicitLanguageRequest(text) ==
    IF \/ HasPair(text, "en", "arabe") \/ HasPair(text, "arabe", "svp") \/ HasWord(text, "arabic")
       \/ HasAny(text, {"ar_bil3arabiya", "ar_3arabi"})
    THEN "ar"
    ELSE IF \/ HasPair(text, "en", "franc'ais") \/ HasPair(text, "en", "francais")
            \/ HasPair(text, "franc'ais", "svp") \/ HasPair(text, "francais", "svp")
            \/ HasPair(text, "in", "french") \/ HasPair(text, "french", "please")
    THEN "fr"
    ELSE IF HasPair(text, "en", "anglais") \/ HasWord(text, "english")
    THEN "en"
    ELSE IF HasAny(text, {"darija", "darja", "derja"})
    THEN "dz"
    ELSE NoValue

\* variant: the stored language of the session is never preferred
EffectiveLang_Detected(userText, storedLang) ==
    LET detection == detectLanguageInfo(userText)
        explicitLang == detectExplicitLanguageRequest(userText)
    IN  IF explicitLang # NoValue THEN explicitLang ELSE detection.lang

\* route.ts 493-498; storedLang is NoValue when the session has none
EffectiveLang(userText, storedLang) ==
    LET detection == detectLanguageInfo(userText)
        explicitLang == detectExplicitLanguageRequest(userText)
    IN  IF explicitLang # NoValue THEN explicitLang
        ELSE IF storedLang # NoValue
                /\ (detection.confidence = "low" \/ isGreetingLike(userText))
        THEN storedLang
        ELSE detection.lang


(***************************************************************************)
(* Deterministic answer builder (route.ts)                                 *)
(* A hit is [brand, family, index, sku, inventory]; index is in            *)
(* hundredths; inventory is InStore(q), or NoInventory for null.           *)
(***************************************************************************)
\* an inventory snapshot, and the absence of one (null)
InStore(q) == [present |-> TRUE, quantity |-> q]
NoInventory == [present |-> FALSE, quantity |-> 0]

\* Number.prototype.toFixed(2) of an index given in hundredths
IndexText(i) == <<ToString(i \div 100) \o "." \o ToString((i % 100) \div 10) \o ToString(i % 10)>>

formatHitLabel(h) ==
    <<h.brand>> \o (IF h.family # NoValue THEN <<"SP", h.family>> ELSE <<>>)
                \o <<"SP">> \o IndexText(h.index)

\* the fixed wording of each language
Phrase(lang, key) ==
    CASE lang = "ar" ->
           (CASE key = "notFound" -> "[ar] not found in the database, cannot confirm the stock; give me the reference/SKU"
              [] key = "qtyOne" -> "[ar] According to the database: the current quantity of"
              [] key = "is" -> "[ar] is"
              [] key = "qtyList" -> "[ar] According to the database, these are the current quantities (best results):"
              [] key = "yes" -> "[ar] Yes, available now. The stock of"
              [] key = "no" -> "[ar] Currently not available (stock"
              [] key = "for" -> "[ar] of"
              [] key = "unknown" -> "[ar] I have no clear stock number for this product in the database.")
      [] lang = "dz" ->
           (CASE key = "notFound" -> "[dz] not found in the data, cannot confirm the stock; give me the reference/SKU"
              [] key = "qtyOne" -> "[dz] According to the data: the quantity of"
              [] key = "is" -> "[dz] is"
              [] key = "qtyList" -> "[dz] According to the data, these are the quantities (best results):"
              [] key = "yes" -> "[dz] Yes available now. The stock of"
              [] key = "no" -> "[dz] Now it is not available (stock"
              [] key = "for" -> "[dz] of"
              [] key = "unknown" -> "[dz] There is no clear stock number in the data for this product.")
      [] lang = "en" ->
           (CASE key = "notFound" -> "I couldn't find that exact product in the database, so I can't confirm the current stock. If you share the SKU/reference, I can check again."
              [] key = "qtyOne" -> "According to the database: current quantity for"
              [] key = "is" -> "is"
              [] key = "qtyList" -> "According to the database, here are the current quantities (best matches):"
              [] key = "yes" -> "Yes, it's currently available. Stock for"
              [] key = "no" -> "Not available right now (stock"
              [] key = "for" -> "for"
              [] key = "unknown" -> "I don't have a clear stock number for that item in the database.")
      [] OTHER ->
           (CASE key = "notFound" -> "Je ne retrouve pas ce produit precisement dans la base, donc je ne peux pas confirmer le stock actuel. Donne-moi la reference/SKU (ou le nom exact) et je verifie."
              [] key = "qtyOne" -> "D'apres la base de donnees : la quantite actuelle pour"
              [] key = "is" -> "est"
              [] key = "qtyList" -> "D'apres la base de donnees, voici les quantites actuelles (meilleurs resultats) :"
              [] key = "yes" -> "Oui, c'est disponible actuellement. Stock pour"
              [] key = "no" -> "Pas disponible pour le moment (stock"
              [] key = "for" -> "pour"
              [] key = "unknown" -> "Je n'ai pas un chiffre de stock clair dans la base pour cet article.")

\* "(SKU: x)" and, in French, "(SKU : x)"
SkuPart(lang, sku) ==
    IF lang \in {"ar", "dz", "en"} THEN <<"(SKU:", "SP", sku, ")">>
    ELSE <<"(SKU", "SP", ":", "SP", sku, ")">>

\* what follows "(SKU: x)" before a quantity in a list line
Colon(lang) == IF lang \in {"ar", "dz", "en"} THEN <<":", "SP">> ELSE <<"SP", ":", "SP">>

\* route.ts 223-227
HitLine(h) ==
    LET known == h.inventory.present
    IN  [label |-> formatHitLabel(h), sku |-> h.sku,
         qtyKnown |-> known, qty |-> h.inventory.quantity,
         qtyText |-> IF known THEN ToString(h.inventory.quantity) ELSE "N/A"]

ListLine(lang, l) ==
    <<"-", "SP">> \o l.label \o <<"SP">> \o SkuPart(lang, l.sku) \o Colon(lang) \o <<l.qtyText>>

RECURSIVE JoinLines(_)
JoinLines(ls) ==
    IF ls = <<>> THEN <<>>
    ELSE IF Len(ls) = 1 THEN Head(ls)
    ELSE Head(ls) \o <<"LF">> \o JoinLines(Tail(ls))

Take(s, n) == SubSeq(s, 1, IF Len(s) < n THEN Len(s) ELSE n)

\* a stock of 0 reported as available
IsInStock_ZeroCounts(q) == q >= 0

\* route.ts 245, 268, 291, 314: topQty > 0
IsInStock(q) == q > 0

\* the French message whatever the language
BuildNotFound_FrenchOnly(lang) == <<Phrase("fr", "notFound")>>

\* route.ts 210-221
BuildNotFound(lang) == <<Phrase(lang, "notFound")>>

buildAvailabilityAnswer(lang, userText, hits, type) ==
    LET wantZeiss == HasWord(userText, "zeiss")
        preferred == IF wantZeiss THEN SelectSeq(hits, LAMBDA h : h.brand = "Zeiss") ELSE hits
        list == Take(IF Len(preferred) > 0 THEN preferred ELSE hits, 3)
        lines == [i \in 1..Len(list) |-> HitLine(list[i])]
        top == lines[1]
        listing(head) == JoinLines(<<<<head>>>> \o [i \in 1..Len(lines) |-> ListLine(lang, lines[i])])
    IN  IF Len(hits) = 0 THEN BuildNotFound(lang)
        ELSE IF type = "quantity" THEN
            IF Len(lines) = 1
            THEN <<Phrase(lang, "qtyOne"), "SP">> \o top.label \o <<"SP">> \o SkuPart(lang, top.sku)
                 \o <<"SP", Phrase(lang, "is"), "SP">>
                 \o <<top.qtyText, ".">>
            ELSE listing(Phrase(lang, "qtyList"))
        ELSE IF top.qtyKnown THEN
            IF IsInStock(top.qty)
            THEN <<Phrase(lang, "yes"), "SP">> \o top.label \o <<"SP">> \o SkuPart(lang, top.sku)
                 \o (IF lang = "fr" THEN Colon(lang) ELSE <<"SP", Phrase(lang, "is"), "SP">>)
                 \o <<ToString(top.qty), ".">>
            ELSE <<Phrase(lang, "no"), "SP", "0", ")", "SP", Phrase(lang, "for"), "SP">>
                 \o top.label \o <<"SP">> \o SkuPart(lang, top.sku) \o <<".">>
        ELSE listing(Phrase(lang, "unknown"))


(***************************************************************************)
(* Catalog (prisma/seed.ts): the seeded products, each with its active     *)
(* inventory row                                                           *)
(***************************************************************************)
Product(sku, brand, family, index, photo, blue, nCoatings, quantity) ==
    [sku |-> sku, brand |-> brand, family |-> family, index |-> index, photochromic |-> photo,
     blueCut |-> blue, nCoatings |-> nCoatings, inventory |-> InStore(quantity)]

Catalog ==
    << Product("ZEISS-AR-150", "Zeiss", "SmartLife", 150, FALSE, FALSE, 3, 10),
       Product("ESSILOR-CRIZAL-160-BLUE", "Crizal", "Crizal", 160, FALSE, TRUE, 4, 6),
       Product("HOYA-PHOTO-167", "Hoya", "Sensity", 167, TRUE, FALSE, 4, 4),
       Product("DIST-PHOTO-174-CAR", "Distributeur", "Premium", 174, TRUE, FALSE, 4, 2),
       Product("HOYA-AR-156", "Hoya", "Nulux", 156, FALSE, FALSE, 3, 8),
       Product("ZEISS-BLUE-156", "Zeiss", "BlueProtect", 156, FALSE, TRUE, 4, 5),
       Product("ESSILOR-PHOTO-160", "Essilor", "Transitions", 160, TRUE, FALSE, 4, 3),
       Product("HOYA-HI-174-BLUE", "Hoya", "HiVision", 174, FALSE, TRUE, 4, 0) >>

\* route.ts 576-582: the projection of a catalog hit the answer builder receives
AsAnswerHit(h) ==
    [brand |-> h.brand, family |-> h.family, index |-> h.index, sku |-> h.sku,
     inventory |-> IF h.inventory.present THEN InStore(h.inventory.quantity) ELSE NoInventory]

(***************************************************************************)
(* Prescription and recommendation (recommendation.ts).  Dioptres and      *)
(* indices are counted in hundredths.                                      *)
(***************************************************************************)
NumberWords == {"-2.50", "-1.25", "-6.00", "180"}

NumberOf(w) ==
    CASE w = "-2.50" -> -250
      [] w = "-1.25" -> -125
      [] w = "-6.00" -> -600
      [] w = "180" -> 180

\* the number that follows one of the keywords, if any ((?:\bSPH\b)\s*[:=]?\s*(number))
MatchNumberAfter(t, keys) ==
    LET at == {i \in 1..(Len(t) - 1) : t[i] \in keys /\ t[i + 1] \in NumberWords}
    IN  IF at = {} THEN [present |-> FALSE, value |-> 0]
        ELSE [present |-> TRUE, value |-> NumberOf(t[(CHOOSE i \in at : \A j \in at : i <= j) + 1])]

\* variant: the axis keyword "axe" is not recognised
parsePrescription_AxOnly(text) ==
    LET sph == MatchNumberAfter(text, {"sph"})
        cyl == MatchNumberAfter(text, {"cyl"})
        axisAt == {i \in 1..(Len(text) - 1) : text[i] \in {"ax", "axis"} /\ text[i + 1] = "180"}
        axis == IF axisAt = {} THEN [present |-> FALSE, value |-> 0]
                ELSE [present |-> TRUE, value |-> 180]
    IN  [present |-> sph.present \/ cyl.present \/ axis.present,
         sph |-> sph, cyl |-> cyl, axis |-> axis]

\* recommendation.ts 38-61; the regexes carry the flag i, the words of a text are in
\* lower case
parsePrescription(text) ==
    LET sph == MatchNumberAfter(text, {"sph"})
        cyl == MatchNumberAfter(text, {"cyl"})
        axisAt == {i \in 1..(Len(text) - 1) : text[i] \in {"ax", "axis", "axe"} /\ text[i + 1] = "180"}
        axis == IF axisAt = {} THEN [present |-> FALSE, value |-> 0]
                ELSE [present |-> TRUE, value |-> 180]
    IN  [present |-> sph.present \/ cyl.present \/ axis.present,
         sph |-> sph, cyl |-> cyl, axis |-> axis]

\* idx + 0.07 in ten-thousandths, as the double addition gives it: 1.6 + 0.07 is
\* 1.6700000000000002, the other sums are the nearest double of the decimal sum
PlusSevenHundredths(idx) == IF idx = 160 THEN 16701 ELSE (idx + 7) * 100

\* variant: a value above 1.67 falls back to the lowest index
clampIndex_Wrap(x) ==
    IF x <= 15000 THEN 150
    ELSE IF x <= 15600 THEN 156
    ELSE IF x <= 16000 THEN 160
    ELSE IF x <= 16700 THEN 167
    ELSE IF x <= 17400 THEN 174
    ELSE 150

\* the argument is in ten-thousandths, the result in hundredths
clampIndex(x) ==
    IF x <= 15000 THEN 150
    ELSE IF x <= 15600 THEN 156
    ELSE IF x <= 16000 THEN 160
    ELSE IF x <= 16700 THEN 167
    ELSE 174

\* variant: the bump is applied whatever the cylinder
recommendFromInputs_AlwaysBump(prescription) ==
    LET sph == IF prescription.sph.present THEN prescription.sph.value ELSE 0
        cyl == IF prescription.cyl.present THEN prescription.cyl.value ELSE 0
        p1 == Abs(sph)
        p2 == Abs(sph + cyl)
        maxPower == IF p1 > p2 THEN p1 ELSE p2
        byPower == IF maxPower <= 200 THEN 150
                   ELSE IF maxPower <= 350 THEN 156
                   ELSE IF maxPower <= 600 THEN 160
                   ELSE IF maxPower <= 800 THEN 167
                   ELSE 174
        bumped == clampIndex(PlusSevenHundredths(byPower))
    IN  [recommendedIndex |->
             IF prescription.present /\ (prescription.sph.present \/ prescription.cyl.present)
             THEN (IF bumped # byPower THEN bumped ELSE byPower)
             ELSE 0,
         wantBlueCut |-> FALSE,
         wantPhotochromic |-> FALSE]

\* recommendedIndex is 0 when undefined; the chat route passes needs: []
recommendFromInputs(prescription) ==
    LET sph == IF prescription.sph.present THEN prescription.sph.value ELSE 0
        cyl == IF prescription.cyl.present THEN prescription.cyl.value ELSE 0
        p1 == Abs(sph)
        p2 == Abs(sph + cyl)
        maxPower == IF p1 > p2 THEN p1 ELSE p2
        byPower == IF maxPower <= 200 THEN 150
                   ELSE IF maxPower <= 350 THEN 156
                   ELSE IF maxPower <= 600 THEN 160
                   ELSE IF maxPower <= 800 THEN 167
                   ELSE 174
        bumped == clampIndex(PlusSevenHundredths(byPower))
    IN  [recommendedIndex |->
             IF prescription.present /\ (prescription.sph.present \/ prescription.cyl.present)
             THEN (IF Abs(cyl) >= 200 /\ bumped # byPower THEN bumped ELSE byPower)
             ELSE 0,
         wantBlueCut |-> FALSE,
         wantPhotochromic |-> FALSE]

(***************************************************************************)
(* Catalog search (catalogSearch.ts)                                       *)
(***************************************************************************)
IndexWords == {"1.50", "1.56", "1.60", "1.67", "1.74"}

IndexOfWord(w) ==
    CASE w = "1.50" -> 150 [] w = "1.56" -> 156 [] w = "1.60" -> 160
      [] w = "1.67" -> 167 [] w = "1.74" -> 174

\* 0 when the text names no index
extractDesiredIndex(text) ==
    LET at == {i \in 1..Len(text) : text[i] \in IndexWords}
    IN  IF at = {} THEN 0 ELSE IndexOfWord(text[CHOOSE i \in at : \A j \in at : i <= j])

extractBrand(text) ==
    IF HasWord(text, "zeiss") THEN "Zeiss"
    ELSE IF HasWord(text, "essilor") THEN "Essilor"
    ELSE IF HasWord(text, "crizal") THEN "Crizal"
    ELSE IF HasAny(text, {"hoya", "ar_hoya"}) THEN "Hoya"
    ELSE IF HasWord(text, "distributeur") THEN "Distributeur"
    ELSE NoValue

\* the vocabulary words that hold "photo" or "transition"
PhotoWords == {"photo", "photochromique", "photochromic", "transition", "transitions"}
\* the vocabulary words that hold "screen" or "ordinateur", or "blue cut" in one word
BlueWords == {"bluecut", "screen", "ordinateur"}

\* the sign of (double value of max(0, 4 - |index - target| * 10)) minus its decimal value
FloatSkew(index, target) ==
    IF index = target THEN 0
    ELSE IF {index, target} = {150, 174} THEN 0
    ELSE IF {index, target} = {167, 174} THEN -1
    ELSE IF 167 \in {index, target} \/ 174 \in {index, target} THEN 1
    ELSE -1

\* the score of catalogSearch.ts 100-117 in four-hundredths, the double rounding of the
\* index term kept as one unit: the order of two scores is the order of the doubles
Score(lens, indexTarget, wantPhoto, wantBlue) ==
    LET closeness == 400 - Abs(lens.index - indexTarget) * 10
    IN  4 * ( (IF lens.inventory.present /\ lens.inventory.quantity > 0 THEN 500 ELSE 0)
            + (IF indexTarget # 0 /\ closeness > 0 THEN closeness ELSE 0)
            + (IF wantPhoto /\ lens.photochromic THEN 200 ELSE 0)
            + (IF wantBlue /\ lens.blueCut THEN 200 ELSE 0)
            + (IF lens.nCoatings * 25 < 200 THEN lens.nCoatings * 25 ELSE 200) )
        + (IF indexTarget # 0 /\ closeness > 0 THEN FloatSkew(lens.index, indexTarget) ELSE 0)

\* Array.prototype.sort with (a, b) => b.score - a.score: descending and stable
RECURSIVE SortByScore(_)
SortByScore(scored) ==
    IF scored = <<>> THEN <<>>
    ELSE LET best == CHOOSE i \in 1..Len(scored) :
                        /\ \A j \in 1..Len(scored) : scored[j].score <= scored[i].score
                        /\ \A j \in 1..(i - 1) : scored[j].score < scored[i].score
         IN  <<scored[best]>> \o
             SortByScore(SubSeq(scored, 1, best - 1) \o SubSeq(scored, best + 1, Len(scored)))

SearchLimit == 6

\* the rows come in the order of the seed; every seeded product has an active inventory row
searchCatalog(userText, recommendation) ==
    LET brand == extractBrand(userText)
        desiredIndex == extractDesiredIndex(userText)
        wantPhoto == HasAny(userText, PhotoWords) \/ recommendation.wantPhotochromic
        wantBlue == HasAny(userText, BlueWords) \/ HasPair(userText, "blue", "cut")
                    \/ HasPair(userText, "lumiere", "bleue") \/ recommendation.wantBlueCut
        indexTarget == IF desiredIndex # 0 THEN desiredIndex ELSE recommendation.recommendedIndex
        results == SelectSeq(Catalog, LAMBDA lens :
                       /\ (brand # NoValue => lens.brand = brand)
                       /\ (wantPhoto => lens.photochromic)
                       /\ (wantBlue => lens.blueCut)
                       /\ lens.inventory.present)
        scored == [i \in 1..Len(results) |->
                      [lens |-> results[i],
                       score |-> Score(results[i], indexTarget, wantPhoto, wantBlue)]]
        top == Take(SortByScore(scored), SearchLimit)
    IN  [i \in 1..Len(top) |-> top[i].lens]

(***************************************************************************)
(* State                                                                   *)
(***************************************************************************)
VARIABLES
    fx,         \* a pure function of the library applied to one input
    env,        \* the configuration of the process (LLM_PROVIDER)
    ab,         \* the deterministic answer builder applied to one input
    sp,         \* the response stream processor on one provider output
    chats,      \* table ChatSession
    msgs,       \* table ChatMessage, in the order of creation
    memory,     \* table ChatMemory
    nextMsgId,  \* the message ids are fresh: the number of ids given out
    turns,      \* the requests POST /api/chat in progress
    api,        \* the last call of the message route
    ui          \* the chat page of one browser

dbVars == <<chats, msgs, memory, nextMsgId>>
vars == <<fx, env, ab, sp, chats, msgs, memory, nextMsgId, turns, api, ui>>

FxIdle == [pc |-> "off"]

AbIdle == [pc |-> "off", lang |-> "fr", userText |-> <<>>, hits |-> <<>>,
           type |-> "availability", answer |-> NoValue]

SpIdle == [pc |-> "off", lang |-> "fr", mode |-> NoValue, budget |-> 0, full |-> <<>>,
           sent |-> <<>>, lastIn |-> <<>>, lastOut |-> <<>>, persisted |-> <<>>]

ChatIds == 1..MaxChats
\* route.ts 713-714
Providers == {"ollama", "openai-compat"}
TurnIds == 1..MaxTurns
NoId == 0

NoChat == [exists |-> FALSE, title |-> <<>>, language |-> NoValue, summary |-> <<>>,
           updatedAt |-> 0]

IdleTurn ==
    [pc |-> "idle", reqChatId |-> NoId, reqUserMessageId |-> NoId, reqMessages |-> 0,
     reqText |-> <<>>,
     stream |-> FALSE, chatId |-> NoId, userMessageId |-> NoId, userText |-> <<>>,
     storedLang |-> NoValue, lang |-> "fr", aqType |-> NoValue, hits |-> <<>>,
     provider |-> NoValue, llmCalls |-> 0,
     budget |-> 0, full |-> <<>>, cleaned |-> <<>>, sent |-> <<>>, ended |-> FALSE,
     cancelled |-> FALSE, closed |-> FALSE, streamError |-> FALSE, assistantId |-> NoId,
     persisted |-> <<>>, answer |-> <<>>, error |-> <<>>, status |-> 0]

IdleApi == [count |-> 0, op |-> NoValue, chatId |-> NoId, messageId |-> NoId, status |-> NoValue]

IdleUi == [pc |-> "off", selectedChatId |-> NoId, messages |-> <<>>, loading |-> FALSE,
           turn |-> 1, flow |-> NoValue, completed |-> FALSE, assistantIndex |-> 0,
           snapshot |-> <<>>, editId |-> NoId, editText |-> <<>>, toDelete |-> <<>>,
           syncPending |-> NoId, before |-> <<>>]

ServerInit ==
    /\ env \in [llmProvider : Providers]
    /\ chats = [c \in ChatIds |-> NoChat]
    /\ msgs = <<>>
    /\ memory = {}
    /\ nextMsgId = 0
    /\ turns = [t \in TurnIds |-> IdleTurn]
    /\ api = IdleApi

(***************************************************************************)
(* Database helpers (Prisma calls of route.ts)                             *)
(***************************************************************************)
\* findMany({ where: { chatId }, orderBy: { createdAt: "asc" } })
MsgsOf(c) == SelectSeq(msgs, LAMBDA m : m.chatId = c)

MsgIds == {msgs[i].id : i \in 1..Len(msgs)}

FindMsg(id) == msgs[CHOOSE i \in 1..Len(msgs) : msgs[i].id = id]

FreeChatIds == {c \in ChatIds : ~chats[c].exists}

\* route.ts 38-46; a truncated title is written with its 77 characters as one atom
compactTitleFromUserText(text) ==
    IF text = <<>> THEN <<"Nouveau chat">>
    ELSE LET words == Take(text, 7)
         IN  IF TextLen(words) > 80 THEN <<"(first 77 characters)", "...">> ELSE words

\* \s+ replaced by one space
RECURSIVE CollapseWhitespace(_)
CollapseWhitespace(s) ==
    IF s = <<>> THEN <<>>
    ELSE IF Head(s) \in JsWhitespace
         THEN <<"SP">> \o CollapseWhitespace(Drop(s, RunLen(s, JsWhitespace)))
         ELSE <<Head(s)>> \o CollapseWhitespace(Tail(s))

ClipLimit == 280
SummaryTake == 20

\* route.ts 49: whitespace collapsed, trimmed, cut at 280; the cut counts the atoms of the
\* text, and no text of the model reaches it
clip(s) == Take(Trim(CollapseWhitespace(s)), ClipLimit)

\* route.ts 48-59: the summary is the list of its "U: ... / A: ..." entries.  The cut that
\* keeps the last 2000 characters is not reached by the summaries of the model.
appendToSummary(prev, user, assistant) ==
    prev \o <<[u |-> clip(user), a |-> clip(assistant)]>>

\* route.ts 61-70: the loop over the positions (1,2), (3,4), ...; a pair that is not
\* (user, assistant) is skipped
RECURSIVE SummaryLoop(_, _)
SummaryLoop(pairs, summary) ==
    IF pairs = <<>> THEN summary
    ELSE SummaryLoop(Drop(pairs, IF Len(pairs) >= 2 THEN 2 ELSE 1),
                     IF Len(pairs) >= 2 /\ pairs[1].role = "user" /\ pairs[2].role = "assistant"
                     THEN appendToSummary(summary, pairs[1].content, pairs[2].content)
                     ELSE summary)

buildSummaryFromMessages(pairs) == SummaryLoop(pairs, <<>>)

\* the summary rebuilt from the first messages of the session (take: 20, ascending)
RebuiltSummary(all, c) ==
    buildSummaryFromMessages(Take(SelectSeq(all, LAMBDA m : m.chatId = c), SummaryTake))

\* route.ts 72-83: one row per (scope, key)
upsertMemory(mem, scope, key, value) ==
    {r \in mem : ~(r.scope = scope /\ r.key = key)} \cup
    {[scope |-> scope, key |-> key, value |-> value]}

\* JSON.stringify(prescription): the fields that are defined
PrescriptionJson(p) ==
    (IF p.sph.present THEN <<"sph", ToString(p.sph.value)>> ELSE <<>>)
    \o (IF p.cyl.present THEN <<"cyl", ToString(p.cyl.value)>> ELSE <<>>)
    \o (IF p.axis.present THEN <<"axis", ToString(p.axis.value)>> ELSE <<>>)

\* route.ts 669-676
MemoryAfterTurn(mem, T) ==
    LET prescription == parsePrescription(T.userText)
        withLang == upsertMemory(mem, "global", "lastLanguage", <<T.lang>>)
    IN  IF prescription.present
        THEN upsertMemory(withLang, "chat:" \o ToString(T.chatId), "prescription", PrescriptionJson(prescription))
        ELSE withLang

\* prisma.chatMessage.create
CreateMsg(all, id, c, role, content) ==
    all \o <<[id |-> id, chatId |-> c, role |-> role, content |-> content]>>

\* route.ts 618-622 and 659-663: the session update of the deterministic path
SessionAfterDeterministic(chat, lang, rebuilt) ==
    [chat EXCEPT !.language = lang, !.summary = rebuilt, !.updatedAt = @ + 1]

\* route.ts 767-778 and 833-844: the session update of the generative path
SessionAfterGenerative(chat, lang, rebuilt, userText) ==
    [chat EXCEPT !.language = lang,
                 !.summary = IF rebuilt # <<>> THEN rebuilt ELSE @,
                 !.title = IF @ = <<"Nouveau chat">> \/ @ = <<>>
                           THEN compactTitleFromUserText(userText) ELSE @,
                 !.updatedAt = @ + 1]

(***************************************************************************)
(* The chat route POST /api/chat (route.ts 445-879)                        *)
(***************************************************************************)
UserTexts ==
    { <<"zeiss", "disponible", "?">>,
      <<"combien", "avez", "vous", "en", "stock", "?">>,
      <<"ar_hal", "ar_hadha", "ar_mutawaffir", "?">>,
      <<"bonjour">>,
      <<"salam">> }

\* what a provider may yield as one fragment, and return as a whole answer
ProviderChunks == {<<"a">>, <<"CR">>}
ProviderTexts == {<<"SP", "a", "LF">>}

\* only the quantity questions take the deterministic path
IsDeterministicTurn_QuantityOnly(availabilityQuestionType) ==
    availabilityQuestionType = "quantity"

\* route.ts 572: if (availabilityQuestionType)
IsDeterministicTurn(availabilityQuestionType) == availabilityQuestionType # NoValue

\* the assistant message is written whatever the way the loop was left
LoopCompleted_Always(outcome) == TRUE

\* route.ts 727-735: the statements after the for-await loop run when the provider stream
\* ended; an exception leaves the try block for the catch of line 781
LoopCompleted(outcome) == outcome = "end"

\* route.ts 573-586
DeterministicAnswer(lang, userText, hits, type) ==
    postProcessAssistantText(
        buildAvailabilityAnswer(lang, userText, [i \in 1..Len(hits) |-> AsAnswerHit(hits[i])], type),
        lang)

\* the handler of the turn has returned and its stream is finished
FinalPcs == {"rejected", "done", "errored", "aborted"}
NoTurnRunning == \A t \in TurnIds : turns[t].pc \in FinalPcs \cup {"idle"}

\* the body whose list messages is empty
NoMessages == <<>>

\* variant: the role of the message named by userMessageId is not compared
RequestStatus_AnyRole(T) ==
    LET regen == T.reqUserMessageId # NoId
        found == T.reqUserMessageId \in MsgIds
    IN  IF T.reqMessages = 0 THEN 400
        ELSE IF regen /\ T.reqChatId = NoId THEN 400
        ELSE IF regen /\ ( \/ ~found
                           \/ FindMsg(T.reqUserMessageId).chatId # T.reqChatId )
        THEN 404
        ELSE 0

\* route.ts 447-473: the status of the early error response, 0 when the request passes;
\* ChatRequestSchema (25-31) refuses an empty list, and the ZodError is answered at 847-878
RequestStatus(T) ==
    LET regen == T.reqUserMessageId # NoId
        found == T.reqUserMessageId \in MsgIds
    IN  IF T.reqMessages = 0 THEN 400
        ELSE IF regen /\ T.reqChatId = NoId THEN 400
        ELSE IF regen /\ ( \/ ~found
                           \/ FindMsg(T.reqUserMessageId).chatId # T.reqChatId
                           \/ FindMsg(T.reqUserMessageId).role # "user" )
        THEN 404
        ELSE 0

\* a client sends a request, one request at a time: chatId and userMessageId are optional, the last user message
\* of the body is the text
ApiChat ==
    \E t \in TurnIds, c \in {NoId} \cup ChatIds, m \in 0..nextMsgId, stream \in BOOLEAN :
      \E text \in (IF m = NoId THEN UserTexts ELSE {<<"bonjour">>}) \cup {NoMessages} :
        /\ turns[t].pc = "idle"
        /\ \A u \in 1..(t - 1) : turns[u].pc \in FinalPcs
        /\ turns' = [turns EXCEPT ![t] = [@ EXCEPT !.pc = "requested", !.reqChatId = c,
                                                   !.reqUserMessageId = m,
                                                   !.reqMessages = IF text = NoMessages THEN 0 ELSE 1,
                                                   !.reqText = text,
                                                   !.stream = stream]]
        /\ UNCHANGED <<fx, env, ab, sp, dbVars, api, ui>>

\* route.ts 447-633: the request is validated, the session and the user message are
\* persisted; for an availability or quantity question the answer is built, and with
\* stream: true it is enqueued and the response stream closed (592-593)
TurnBegin ==
    \E t \in TurnIds :
      LET T == turns[t]
          regen == T.reqUserMessageId # NoId
          refused == RequestStatus(T)
          userText == IF regen /\ refused = 0 THEN FindMsg(T.reqUserMessageId).content
                      ELSE T.reqText
          storedLang == IF T.reqChatId # NoId /\ chats[T.reqChatId].exists
                        THEN chats[T.reqChatId].language ELSE NoValue
          lang == EffectiveLang(userText, storedLang)
          recommendation == recommendFromInputs(parsePrescription(userText))
          availabilityQuestionType == getAvailabilityQuestionType(userText)
          hits == searchCatalog(userText, recommendation)
          newChat == T.reqChatId = NoId
          chatId == IF newChat THEN CHOOSE c \in FreeChatIds : \A d \in FreeChatIds : c <= d
                    ELSE T.reqChatId
          userMessageId == IF regen THEN T.reqUserMessageId ELSE nextMsgId + 1
          deterministic == IsDeterministicTurn(availabilityQuestionType)
          answer == DeterministicAnswer(lang, userText, hits, availabilityQuestionType)
          Reject(status) ==
              /\ turns' = [turns EXCEPT ![t] = [@ EXCEPT !.pc = "rejected", !.status = status]]
              /\ UNCHANGED dbVars
      IN  /\ T.pc = "requested"
          /\ IF refused # 0
             THEN Reject(refused)
             ELSE IF ~newChat /\ ~chats[T.reqChatId].exists
             \* the user message refers to no session: the insert fails, caught at 847
             THEN Reject(400)
             ELSE /\ newChat => FreeChatIds # {}
                  /\ chats' = IF newChat
                              THEN [chats EXCEPT ![chatId] =
                                       [exists |-> TRUE,
                                        title |-> compactTitleFromUserText(userText),
                                        language |-> lang, summary |-> <<>>, updatedAt |-> 1]]
                              ELSE chats
                  /\ msgs' = IF regen THEN msgs
                             ELSE CreateMsg(msgs, userMessageId, chatId, "user", userText)
                  /\ nextMsgId' = IF regen THEN nextMsgId ELSE nextMsgId + 1
                  /\ memory' = memory
                  /\ turns' = [turns EXCEPT ![t] =
                        [@ EXCEPT !.chatId = chatId, !.userMessageId = userMessageId,
                                  !.userText = userText, !.storedLang = storedLang,
                                  !.lang = lang,
                                  !.aqType = availabilityQuestionType, !.hits = hits,
                                  !.pc = IF deterministic THEN "det" ELSE "gen",
                                  !.answer = IF deterministic THEN answer ELSE <<>>,
                                  !.sent = IF deterministic /\ T.stream THEN <<answer>> ELSE <<>>,
                                  !.closed = deterministic /\ T.stream,
                                  !.status = IF deterministic /\ T.stream THEN 200 ELSE 0]]
          /\ UNCHANGED <<fx, env, ab, sp, api, ui>>

\* route.ts 595-622 (after the stream was closed) and 636-665: the deterministic answer
\* is persisted and the session updated
TurnDetPersist ==
    \E t \in TurnIds :
      LET T == turns[t]
          id == nextMsgId + 1
          written == CreateMsg(msgs, id, T.chatId, "assistant", T.answer)
      IN  /\ T.pc = "det"
          /\ msgs' = written
          /\ nextMsgId' = id
          /\ chats' = [chats EXCEPT ![T.chatId] =
                          SessionAfterDeterministic(@, T.lang, RebuiltSummary(written, T.chatId))]
          /\ turns' = [turns EXCEPT ![t] = [@ EXCEPT !.pc = "done", !.assistantId = id,
                                                     !.persisted = T.answer, !.status = 200]]
          /\ UNCHANGED <<fx, env, ab, sp, memory, api, ui>>

\* route.ts 669-725 and 787-795 with stream: true: the memory is updated, the provider
\* stream is opened and the response returned
TurnOpenStream ==
    \E t \in TurnIds :
      LET T == turns[t]
      IN  /\ T.pc = "gen"
          /\ T.stream
          /\ memory' = MemoryAfterTurn(memory, T)
          /\ turns' = [turns EXCEPT ![t] = [@ EXCEPT !.pc = "streaming", !.provider = env.llmProvider,
                                                     !.llmCalls = @ + 1, !.budget = MaxChunks,
                                                     !.status = 200]]
          /\ UNCHANGED <<fx, env, ab, sp, chats, msgs, nextMsgId, api, ui>>

\* route.ts 727-732 and 781-783: the provider yields a fragment.  enqueue throws on a
\* stream the client cancelled; the catch calls controller.error, without effect on it.
TurnStreamChunk ==
    \E t \in TurnIds, chunk \in ProviderChunks :
      LET T == turns[t]
          step == StreamChunkStep(T.full, chunk, T.lang)
      IN  /\ T.pc = "streaming"
          /\ T.budget > 0
          /\ turns' = [turns EXCEPT ![t] =
                IF step.enqueue /\ T.cancelled
                THEN [@ EXCEPT !.pc = "aborted", !.full = step.full,
                               !.cleaned = Append(@, step.cleaned)]
                ELSE [@ EXCEPT !.budget = @ - 1, !.full = step.full,
                               !.cleaned = IF step.enqueue THEN Append(@, step.cleaned) ELSE @,
                               !.sent = IF step.enqueue THEN Append(@, step.cleaned) ELSE @]]
          /\ UNCHANGED <<fx, env, ab, sp, dbVars, api, ui>>

\* route.ts 735-783: the provider stream ends or throws.  After the loop the final text
\* is cleaned and persisted, the session updated and the response stream closed (close
\* throws on a cancelled stream, into the same catch); an exception of the provider goes
\* to controller.error.
TurnStreamFinish ==
    \E t \in TurnIds, outcome \in {"end", "error"} :
      LET T == turns[t]
          id == nextMsgId + 1
          full == postProcessAssistantText(T.full, T.lang)
          written == CreateMsg(msgs, id, T.chatId, "assistant", full)
      IN  /\ T.pc = "streaming"
          /\ IF LoopCompleted(outcome)
             THEN /\ msgs' = written
                  /\ nextMsgId' = id
                  /\ chats' = [chats EXCEPT ![T.chatId] =
                        SessionAfterGenerative(@, T.lang, RebuiltSummary(written, T.chatId),
                                               T.userText)]
                  /\ turns' = [turns EXCEPT ![t] =
                        [@ EXCEPT !.pc = "done", !.ended = (outcome = "end"),
                                  !.assistantId = id, !.persisted = full,
                                  !.closed = ~T.cancelled]]
             ELSE /\ turns' = [turns EXCEPT ![t] =
                        [@ EXCEPT !.pc = "errored", !.streamError = ~T.cancelled]]
                  /\ UNCHANGED <<chats, msgs, nextMsgId>>
          /\ UNCHANGED <<fx, env, ab, sp, memory, api, ui>>

\* route.ts 669-711 and 798-846 with stream absent or false: the provider returns the
\* whole answer, which is cleaned, persisted and returned
TurnComplete ==
    \E t \in TurnIds, rawAnswer \in ProviderTexts :
      LET T == turns[t]
          id == nextMsgId + 1
          answer == postProcessAssistantText(rawAnswer, T.lang)
          written == CreateMsg(msgs, id, T.chatId, "assistant", answer)
      IN  /\ T.pc = "gen"
          /\ ~T.stream
          /\ memory' = MemoryAfterTurn(memory, T)
          /\ msgs' = written
          /\ nextMsgId' = id
          /\ chats' = [chats EXCEPT ![T.chatId] =
                SessionAfterGenerative(@, T.lang, RebuiltSummary(written, T.chatId), T.userText)]
          /\ turns' = [turns EXCEPT ![t] =
                [@ EXCEPT !.pc = "done", !.provider = env.llmProvider, !.llmCalls = @ + 1,
                          !.assistantId = id, !.persisted = answer, !.answer = answer,
                          !.status = 200]]
          /\ UNCHANGED <<fx, env, ab, sp, api, ui>>

\* how a provider call fails: a response that is not ok, or a fetch that cannot connect
ProviderFailures == {"http", "connection"}

\* part_008 90-93, openaiCompat.ts 135-138: the message of the Error thrown on a response
\* that is not ok (status 500, empty body); fetch itself throws "fetch failed"
ProviderErrorMessage(provider, failure) ==
    IF failure = "connection" THEN <<"fetch", "failed">>
    ELSE IF provider = "ollama" THEN <<"ollama", "error", "500", ":">>
    ELSE <<"openai-compatible", "error", "500", ":">>

\* route.ts 847-877: the status of the error response, chosen by the message
ErrorStatus(msg) ==
    LET isSqliteOpenError ==
            \/ \E i \in 1..(Len(msg) - 5) :
                  SubSeq(msg, i, i + 5) = <<"unable", "to", "open", "the", "database", "file">>
            \/ HasPair(msg, "code", "14")
        isOllamaHttpError ==
            \E i \in 1..(Len(msg) - 3) :
                /\ msg[i] = "ollama" /\ msg[i + 1] = "error"
                /\ msg[i + 2] \in {"404", "500"} /\ msg[i + 3] = ":"
        isOllamaConnError ==
            HasPair(msg, "fetch", "failed") \/ HasAny(msg, {"econnrefused", "getaddrinfo", "enotfound"})
    IN  IF isSqliteOpenError THEN 500
        ELSE IF isOllamaHttpError \/ isOllamaConnError THEN 502
        ELSE 400

\* route.ts 798-800 and 847-877: the provider call throws, and the catch answers by the
\* message of the error
TurnCompleteError ==
    \E t \in TurnIds, failure \in ProviderFailures :
      LET T == turns[t]
          msg == ProviderErrorMessage(env.llmProvider, failure)
      IN  /\ T.pc = "gen"
          /\ ~T.stream
          /\ memory' = MemoryAfterTurn(memory, T)
          /\ turns' = [turns EXCEPT ![t] =
                [@ EXCEPT !.pc = "errored", !.provider = env.llmProvider, !.llmCalls = @ + 1,
                          !.error = msg, !.status = ErrorStatus(msg)]]
          /\ UNCHANGED <<fx, env, ab, sp, chats, msgs, nextMsgId, api, ui>>

\* part_005 395-399 (abort of the fetch), or any client that drops the connection: the
\* response stream of a streaming turn is cancelled before the server closed it
CancelStream(t) ==
    /\ turns[t].pc = "streaming"
    /\ ~turns[t].cancelled
    /\ turns' = [turns EXCEPT ![t] = [@ EXCEPT !.cancelled = TRUE]]

ClientAbort ==
    \E t \in TurnIds :
        /\ CancelStream(t)
        /\ UNCHANGED <<fx, env, ab, sp, dbVars, api, ui>>

(***************************************************************************)
(* The message route /api/chats/{chatId}/messages/{messageId} (part_005)   *)
(***************************************************************************)
PatchContents == {<<"hello">>}

ApiResult(op, c, m, status) ==
    [count |-> api.count + 1, op |-> op, chatId |-> c, messageId |-> m, status |-> status]

\* part_005 1313-1342: the message is updated, then its session compared with chatId;
\* update throws when no message has the id
MessagePATCH(c, m, content) ==
    IF m \notin MsgIds
    THEN /\ api' = ApiResult("PATCH", c, m, "error")
         /\ UNCHANGED <<chats, msgs>>
    ELSE LET updated == [FindMsg(m) EXCEPT !.content = content]
         IN  /\ msgs' = [i \in 1..Len(msgs) |-> IF msgs[i].id = m THEN updated ELSE msgs[i]]
             /\ IF updated.chatId # c
                THEN /\ api' = ApiResult("PATCH", c, m, "mismatch")
                     /\ UNCHANGED chats
                ELSE /\ api' = ApiResult("PATCH", c, m, "ok")
                     /\ chats' = [chats EXCEPT ![c].updatedAt = @ + 1]

\* part_005 1344-1363: the message is deleted, then its session compared with chatId;
\* delete throws when no message has the id
MessageDELETE(c, m) ==
    IF m \notin MsgIds
    THEN /\ api' = ApiResult("DELETE", c, m, "error")
         /\ UNCHANGED <<chats, msgs>>
    ELSE LET deleted == FindMsg(m)
         IN  /\ msgs' = SelectSeq(msgs, LAMBDA x : x.id # m)
             /\ IF deleted.chatId # c
                THEN /\ api' = ApiResult("DELETE", c, m, "mismatch")
                     /\ UNCHANGED chats
                ELSE /\ api' = ApiResult("DELETE", c, m, "ok")
                     /\ chats' = [chats EXCEPT ![c].updatedAt = @ + 1]

\* a client calls PATCH with any chat id and message id
ApiPatchMessage ==
    \E c \in ChatIds, m \in 1..nextMsgId, content \in PatchContents :
        /\ api.count < MaxApiCalls
        /\ NoTurnRunning
        /\ MessagePATCH(c, m, content)
        /\ UNCHANGED <<fx, env, ab, sp, memory, nextMsgId, turns, ui>>

\* a client calls DELETE with any chat id and message id
ApiDeleteMessage ==
    \E c \in ChatIds, m \in 1..nextMsgId :
        /\ api.count < MaxApiCalls
        /\ NoTurnRunning
        /\ MessageDELETE(c, m)
        /\ UNCHANGED <<fx, env, ab, sp, memory, nextMsgId, turns, ui>>

(***************************************************************************)
(* Spec: the chat route and the message route called by any client         *)
(***************************************************************************)
Init ==
    /\ ServerInit
    /\ fx = FxIdle
    /\ ab = AbIdle
    /\ sp = SpIdle
    /\ ui = IdleUi

Next ==
    \/ ApiChat
    \/ TurnBegin
    \/ TurnDetPersist
    \/ TurnOpenStream
    \/ TurnStreamChunk
    \/ TurnStreamFinish
    \/ TurnComplete
    \/ TurnCompleteError
    \/ ClientAbort
    \/ ApiPatchMessage
    \/ ApiDeleteMessage

Spec == Init /\ [][Next]_vars

\* the turns whose handler went past the validation
Started(t) == turns[t].pc \notin {"idle", "requested", "rejected"}

\* C1: a turn whose user text is an availability or quantity question never calls the
\* provider, and the answer it sends (stream or JSON) and persists is the one
\* buildAvailabilityAnswer builds from the catalog hits of the turn.
C1_DeterministicAnswer ==
    \A t \in TurnIds :
        LET T == turns[t]
            type == getAvailabilityQuestionType(T.userText)
            built == buildAvailabilityAnswer(T.lang, T.userText,
                         [i \in 1..Len(T.hits) |-> AsAnswerHit(T.hits[i])], type)
        IN  (Started(t) /\ type \in {"availability", "quantity"})
                => /\ T.llmCalls = 0
                   /\ T.provider = NoValue
                   /\ T.hits = searchCatalog(T.userText, recommendFromInputs(parsePrescription(T.userText)))
                   /\ T.stream => T.sent = <<built>>
                   /\ T.pc = "done" => /\ T.assistantId # NoId
                                       /\ T.persisted = built
                                       /\ ~T.stream => T.answer = built

C1_Witness ==
    \E t, u \in TurnIds :
        /\ turns[t].pc = "done" /\ turns[t].stream /\ turns[t].aqType = "availability"
        /\ turns[t].lang = "ar" /\ turns[t].assistantId # NoId
        /\ turns[u].pc = "done" /\ ~turns[u].stream /\ turns[u].aqType = "quantity"
        /\ Len(turns[u].hits) > 0

\* C2: a PATCH or DELETE that answers "Message/chat mismatch" changes no message and
\* no session.
C2_MismatchMutatesNothing ==
    [][(api'.count # api.count /\ api'.status = "mismatch")
           => (msgs' = msgs /\ chats' = chats)]_vars

\* C4: in a streaming generative turn the assistant message is persisted only when the
\* provider stream has ended and every non-empty cleaned fragment was enqueued on the
\* response stream; when the provider stream throws, the response stream is put in
\* error and the turn persists no assistant message.
C4_PersistAfterStream ==
    \A t \in TurnIds :
        LET T == turns[t]
        IN  (Started(t) /\ T.stream /\ T.aqType = NoValue)
                => /\ T.assistantId # NoId => (T.ended /\ T.sent = T.cleaned)
                   /\ T.pc = "errored" => /\ T.assistantId = NoId
                                          /\ ~T.cancelled => T.streamError

C4_Witness ==
    \E t, u \in TurnIds :
        /\ turns[t].pc = "done" /\ turns[t].stream /\ turns[t].aqType = NoValue
        /\ Len(turns[t].sent) = 2 /\ turns[t].assistantId # NoId
        /\ turns[u].pc = "errored" /\ turns[u].stream /\ Len(turns[u].sent) >= 1

\* C5: a streaming turn whose response stream the client cancelled before the server
\* closed it persists no assistant message.
C5_AbortPersistsNothing ==
    \A t \in TurnIds : turns[t].cancelled => turns[t].assistantId = NoId

(***************************************************************************)
(* SpecUI: the chat page (part_005, ChatUI) driving the two routes         *)
(***************************************************************************)
UiTexts == {<<"bonjour">>, <<"zeiss", "disponible", "?">>}

\* part_005 448-457
ensureGreetingIfEmpty(list) ==
    IF list # <<>> THEN list
    ELSE <<[id |-> NoId, role |-> "assistant", content |-> <<"(greeting)">>]>>

\* the catch blocks of send and editAndRegenerate (part_005 695-714, 810-822)
WithErrorMessage(list) ==
    LET error == [id |-> NoId, role |-> "assistant", content |-> <<"(error)">>]
    IN  IF list # <<>> /\ list[Len(list)].role = "assistant"
           /\ Trim(list[Len(list)].content) = <<>>
        THEN [list EXCEPT ![Len(list)] = error]
        ELSE Append(list, error)

\* part_005 643-652: the id goes to the last user message that has none
RECURSIVE AttachUserId(_, _)
AttachUserId(list, id) ==
    IF list = <<>> THEN <<>>
    ELSE LET last == list[Len(list)]
             front == SubSeq(list, 1, Len(list) - 1)
         IN  IF last.role = "user" /\ last.id = NoId
             THEN Append(front, [last EXCEPT !.id = id])
             ELSE Append(AttachUserId(front, id), last)

FreeTurns == {t \in TurnIds : turns[t].pc = "idle"}
FirstFreeTurn == CHOOSE t \in FreeTurns : \A u \in FreeTurns : t <= u

Request(t, c, m, text) ==
    [turns EXCEPT ![t] = [@ EXCEPT !.pc = "requested", !.reqChatId = c, !.reqUserMessageId = m,
                                   !.reqMessages = 1, !.reqText = text, !.stream = TRUE]]

UiInit ==
    /\ ServerInit
    /\ fx = FxIdle
    /\ ab = AbIdle
    /\ sp = SpIdle
    /\ ui = [IdleUi EXCEPT !.pc = "idle", !.messages = ensureGreetingIfEmpty(<<>>)]

\* part_005 589-620: send, up to the fetch of POST /api/chat
UiSend ==
    \E text \in UiTexts :
        /\ ui.pc = "idle"
        /\ ~ui.loading
        /\ FreeTurns # {}
        /\ turns' = Request(FirstFreeTurn, ui.selectedChatId, NoId, text)
        /\ ui' = [ui EXCEPT !.pc = "posting", !.loading = TRUE, !.flow = "send",
                            !.turn = FirstFreeTurn, !.completed = FALSE,
                            !.messages = @ \o <<[id |-> NoId, role |-> "user", content |-> text],
                                                [id |-> NoId, role |-> "assistant", content |-> <<>>]>>,
                            !.assistantIndex = Len(ui.messages) + 2]
        /\ UNCHANGED <<fx, env, ab, sp, dbVars, api>>

\* part_005 622-653 and 777-788: the response arrives.  send reads the headers X-Chat-Id
\* and X-User-Message-Id, editAndRegenerate does not; a response that is not ok goes to
\* the catch block.
UiResponse ==
    LET T == turns[ui.turn]
    IN  /\ ui.pc = "posting"
        /\ T.status # 0
        /\ ui' = IF T.status # 200
                 THEN [ui EXCEPT !.pc = "idle", !.loading = FALSE,
                                 !.messages = WithErrorMessage(@)]
                 ELSE IF ui.flow = "send"
                 THEN [ui EXCEPT !.pc = "reading", !.selectedChatId = T.chatId,
                                 !.messages = AttachUserId(@, T.userMessageId)]
                 ELSE [ui EXCEPT !.pc = "reading"]
        /\ UNCHANGED <<fx, env, ab, sp, dbVars, turns, api>>

\* part_005 663-688 and 790-807: the stream is read to its end; the message list is then
\* synchronised by a call that is not awaited
UiStreamDone ==
    LET T == turns[ui.turn]
        chat == IF ui.flow = "send" THEN T.chatId ELSE ui.selectedChatId
    IN  /\ ui.pc = "reading"
        /\ T.closed
        /\ ui' = [ui EXCEPT !.pc = "idle", !.loading = FALSE, !.completed = TRUE,
                            !.syncPending = chat,
                            !.messages = IF ui.assistantIndex <= Len(@) /\ Concat(T.sent) # <<>>
                                         THEN [@ EXCEPT ![ui.assistantIndex] =
                                                  [id |-> NoId, role |-> "assistant",
                                                   content |-> Concat(T.sent)]]
                                         ELSE @]
        /\ UNCHANGED <<fx, env, ab, sp, dbVars, turns, api>>

\* part_005 690-718 and 808-826: reading the stream fails with the error of the server
UiStreamError ==
    /\ ui.pc = "reading"
    /\ turns[ui.turn].streamError
    /\ ui' = [ui EXCEPT !.pc = "idle", !.loading = FALSE, !.messages = WithErrorMessage(@)]
    /\ UNCHANGED <<fx, env, ab, sp, dbVars, turns, api>>

\* part_005 395-399, pressed while the stream is read: the fetch is aborted, the handler
\* returns on the AbortError
UiStop ==
    /\ ui.pc = "reading"
    /\ ui.loading
    /\ turns' = IF turns[ui.turn].pc = "streaming"
                THEN [turns EXCEPT ![ui.turn] = [@ EXCEPT !.cancelled = TRUE]]
                ELSE turns
    /\ ui' = [ui EXCEPT !.pc = "idle", !.loading = FALSE]
    /\ UNCHANGED <<fx, env, ab, sp, dbVars, api>>

\* part_005 413-424: the answer of GET /api/chats/{chatId} replaces the message list
UiSync ==
    LET stored == MsgsOf(ui.syncPending)
        mapped == [i \in 1..Len(stored) |->
                      [id |-> stored[i].id, role |-> stored[i].role, content |-> stored[i].content]]
    IN  /\ ui.syncPending # NoId
        /\ ui' = [ui EXCEPT !.syncPending = NoId, !.messages = ensureGreetingIfEmpty(mapped)]
        /\ UNCHANGED <<fx, env, ab, sp, dbVars, turns, api>>

\* the position of the message with the id in a list, 0 if none
IndexOfId(list, id) ==
    IF \E i \in 1..Len(list) : list[i].id = id
    THEN CHOOSE i \in 1..Len(list) : list[i].id = id /\ \A j \in 1..(i - 1) : list[j].id # id
    ELSE 0

\* the ids of a list that are known
IdsOf(list) ==
    LET known == SelectSeq(list, LAMBDA x : x.id # NoId)
    IN  [i \in 1..Len(known) |-> known[i].id]

\* part_005 721-739 and 742-745: editAndRegenerate on a user message that shows the edit
\* button (it has an id, a session is selected, nothing is loading): the PATCH, and the
\* list of the ids to delete taken from the messages of the page
UiEdit ==
    \E idx \in 1..Len(ui.messages), newText \in UiTexts :
      LET m == ui.messages[idx]
          stored == MsgsOf(ui.selectedChatId)
          at == IndexOfId(stored, m.id)
      IN  /\ ui.pc = "idle"
          /\ ~ui.loading
          /\ FreeTurns # {}
          /\ ui.selectedChatId # NoId
          /\ m.role = "user"
          /\ m.id # NoId
          /\ MessagePATCH(ui.selectedChatId, m.id, newText)
          /\ ui' = IF api'.status # "ok"
                   THEN [ui EXCEPT !.messages = WithErrorMessage(@)]
                   ELSE [ui EXCEPT !.pc = "deleting", !.loading = TRUE, !.flow = "edit",
                                   !.completed = FALSE, !.snapshot = ui.messages,
                                   !.editId = m.id, !.editText = newText,
                                   !.toDelete = IdsOf(Drop(ui.messages, idx)),
                                   !.before = SubSeq(stored, 1, at - 1)]
          /\ UNCHANGED <<fx, env, ab, sp, memory, nextMsgId, turns>>

\* part_005 747-750: one DELETE of the loop, its result ignored
UiEditDelete ==
    /\ ui.pc = "deleting"
    /\ ui.toDelete # <<>>
    /\ MessageDELETE(ui.selectedChatId, Head(ui.toDelete))
    /\ ui' = [ui EXCEPT !.toDelete = Tail(@)]
    /\ UNCHANGED <<fx, env, ab, sp, memory, nextMsgId, turns>>

\* part_005 752-775: the page keeps the messages up to the edited one and a placeholder,
\* and POST /api/chat is called with userMessageId
UiEditPost ==
    LET idx == IndexOfId(ui.snapshot, ui.editId)
        updatedPrefix == [i \in 1..idx |->
                             IF ui.snapshot[i].id = ui.editId
                             THEN [ui.snapshot[i] EXCEPT !.content = ui.editText]
                             ELSE ui.snapshot[i]]
    IN  /\ ui.pc = "deleting"
        /\ ui.flow = "edit"
        /\ ui.toDelete = <<>>
        /\ turns' = Request(FirstFreeTurn, ui.selectedChatId, ui.editId, ui.editText)
        /\ ui' = [ui EXCEPT !.pc = "posting", !.turn = FirstFreeTurn,
                            !.messages = Append(updatedPrefix,
                                                [id |-> NoId, role |-> "assistant", content |-> <<>>]),
                            !.assistantIndex = idx + 1]
        /\ UNCHANGED <<fx, env, ab, sp, dbVars, api>>

\* part_005 838-844: the position of the nearest user message before position idx of a
\* list, 0 if none
PreviousUserIndex(list, idx) ==
    IF \E j \in 1..(idx - 1) : list[j].role = "user"
    THEN CHOOSE j \in 1..(idx - 1) :
             /\ list[j].role = "user"
             /\ \A k \in (j + 1)..(idx - 1) : list[k].role # "user"
    ELSE 0

\* part_005 829-857: regenerateAnswerFromAssistant on an assistant message that shows the
\* button (it has an id, a session is selected, nothing is loading) and whose nearest
\* previous user message has an id: the ids to delete are those of the messages of the
\* page from the assistant message on
UiRegenerate ==
    \E idx \in 1..Len(ui.messages) :
      LET m == ui.messages[idx]
          userIdx == PreviousUserIndex(ui.messages, idx)
          stored == MsgsOf(ui.selectedChatId)
      IN  /\ ui.pc = "idle"
          /\ ~ui.loading
          /\ FreeTurns # {}
          /\ ui.selectedChatId # NoId
          /\ m.role = "assistant"
          /\ m.id # NoId
          /\ userIdx # 0
          /\ ui.messages[userIdx].id # NoId
          /\ ui' = [ui EXCEPT !.pc = "deleting", !.loading = TRUE, !.flow = "regen",
                              !.completed = FALSE, !.snapshot = ui.messages,
                              !.editId = ui.messages[userIdx].id,
                              !.editText = ui.messages[userIdx].content,
                              !.toDelete = IdsOf(Drop(ui.messages, idx - 1)),
                              !.before = SubSeq(stored, 1,
                                                IndexOfId(stored, ui.messages[userIdx].id))]
          /\ UNCHANGED <<fx, env, ab, sp, dbVars, turns, api>>

\* part_005 859-886: the page keeps the messages up to the user message and a
\* placeholder, and POST /api/chat is called with userMessageId
UiRegeneratePost ==
    LET userIdx == IndexOfId(ui.snapshot, ui.editId)
    IN  /\ ui.pc = "deleting"
        /\ ui.flow = "regen"
        /\ ui.toDelete = <<>>
        /\ turns' = Request(FirstFreeTurn, ui.selectedChatId, ui.editId, ui.editText)
        /\ ui' = [ui EXCEPT !.pc = "posting", !.turn = FirstFreeTurn,
                            !.messages = Append(SubSeq(ui.snapshot, 1, userIdx),
                                                [id |-> NoId, role |-> "assistant", content |-> <<>>]),
                            !.assistantIndex = userIdx + 1]
        /\ UNCHANGED <<fx, env, ab, sp, dbVars, api>>

UiNext ==
    \/ UiSend
    \/ UiResponse
    \/ UiStreamDone
    \/ UiStreamError
    \/ UiStop
    \/ UiSync
    \/ UiEdit
    \/ UiEditDelete
    \/ UiEditPost
    \/ UiRegenerate
    \/ UiRegeneratePost
    \/ TurnBegin
    \/ TurnDetPersist
    \/ TurnOpenStream
    \/ TurnStreamChunk
    \/ TurnStreamFinish

SpecUI == UiInit /\ [][UiNext]_vars

\* C3: when editAndRegenerate on the user message m has completed and its turn has
\* persisted its answer, the messages of the session are the messages that preceded m,
\* then m with the edited content, then the one new assistant message.
C3_EditRoundTrip ==
    LET S == ui.selectedChatId
        T == turns[ui.turn]
        n == Len(ui.before)
    IN  (ui.flow = "edit" /\ ui.completed /\ T.pc = "done")
            => /\ Len(MsgsOf(S)) = n + 2
               /\ SubSeq(MsgsOf(S), 1, n) = ui.before
               /\ MsgsOf(S)[n + 1] = [id |-> ui.editId, chatId |-> S, role |-> "user",
                                      content |-> ui.editText]
               /\ MsgsOf(S)[n + 2].role = "assistant"
               /\ MsgsOf(S)[n + 2].id = T.assistantId

(***************************************************************************)
(* SpecAnswer: buildAvailabilityAnswer on bounded inputs                   *)
(***************************************************************************)
\* hits the builder may receive: catalog hits, and hits without an active inventory row
\* or without a family (both optional in CatalogHit)
AnswerHitPool ==
    {AsAnswerHit(Catalog[i]) : i \in 1..Len(Catalog)}
    \cup {[brand |-> "Zeiss", family |-> "BlueProtect", index |-> 156, sku |-> "ZEISS-BLUE-156",
           inventory |-> NoInventory],
          [brand |-> "Essilor", family |-> NoValue, index |-> 160, sku |-> "ESSILOR-PHOTO-160",
           inventory |-> NoInventory]}

HitLists ==
    UNION {{hs \in [1..n -> AnswerHitPool] : \A i, j \in 1..n : i # j => hs[i].sku # hs[j].sku}
           : n \in 0..MaxHits}

AnswerTexts == {<<"zeiss", "disponible", "?">>, <<"disponible", "?">>}

AbInit ==
    /\ ab \in [pc : {"input"}, lang : Langs, userText : AnswerTexts, hits : HitLists,
               type : {"availability", "quantity"}, answer : {NoValue}]
    /\ sp = SpIdle
    /\ ServerInit
    /\ fx = FxIdle
    /\ ui = IdleUi

\* route.ts 573-586
AbBuild ==
    /\ ab.pc = "input"
    /\ LET deterministic == buildAvailabilityAnswer(ab.lang, ab.userText, ab.hits, ab.type)
       IN  ab' = [ab EXCEPT !.pc = "built",
                            !.answer = postProcessAssistantText(deterministic, ab.lang)]
    /\ UNCHANGED <<fx, env, sp, dbVars, turns, api, ui>>

AnswerNext == AbBuild

SpecAnswer == AbInit /\ [][AnswerNext]_vars


\* every atom that names a product, a SKU or a quantity of the hit pool
CatalogAtoms ==
    UNION {{h.brand, h.family, h.sku, ToString(h.inventory.quantity)} \cup
           {IndexText(h.index)[1]} : h \in AnswerHitPool} \cup {"N/A"}

C9_FixedMessage(lang) ==
    CASE lang = "ar" -> "[ar] not found in the database, cannot confirm the stock; give me the reference/SKU"
      [] lang = "dz" -> "[dz] not found in the data, cannot confirm the stock; give me the reference/SKU"
      [] lang = "en" -> "I couldn't find that exact product in the database, so I can't confirm the current stock. If you share the SKU/reference, I can check again."
      [] lang = "fr" -> "Je ne retrouve pas ce produit precisement dans la base, donc je ne peux pas confirmer le stock actuel. Donne-moi la reference/SKU (ou le nom exact) et je verifie."

\* C9: with zero hits, the answer to an availability or quantity question is the fixed
\* "not found, give me the SKU" message of the turn's language, and it names no product,
\* SKU or quantity.
C9_ZeroHitsFixedMessage ==
    (ab.pc = "built" /\ Len(ab.hits) = 0)
        => /\ ab.answer = <<C9_FixedMessage(ab.lang)>>
           /\ \A i \in 1..Len(ab.answer) : ab.answer[i] \notin CatalogAtoms

C9_Witness ==
    ab.pc = "built" /\ Len(ab.hits) = 0 /\ ab.lang = "ar" /\ ab.type = "availability"

\* the candidate the answer is about: the first Zeiss hit when the text names Zeiss and
\* a Zeiss hit exists, else the first hit
C10_Top ==
    LET zeiss == {i \in 1..Len(ab.hits) : ab.hits[i].brand = "Zeiss"}
    IN  IF HasWord(ab.userText, "zeiss") /\ zeiss # {}
        THEN ab.hits[CHOOSE i \in zeiss : \A j \in zeiss : i <= j]
        ELSE ab.hits[1]

C10_Case ==
    /\ ab.pc = "built"
    /\ ab.type = "availability"
    /\ Len(ab.hits) >= 1
    /\ C10_Top.inventory.present

C10_YesPhrases ==
    {"[ar] Yes, available now. The stock of", "[dz] Yes available now. The stock of",
     "Yes, it's currently available. Stock for", "Oui, c'est disponible actuellement. Stock pour"}

C10_NoPhrases ==
    {"[ar] Currently not available (stock", "[dz] Now it is not available (stock",
     "Not available right now (stock", "Pas disponible pour le moment (stock"}

\* C10: for an availability question whose top candidate has a known quantity q, the
\* answer is affirmative exactly when q > 0 and then states q; when q = 0 it states
\* unavailability and cites the stock 0, never "N/A".
C10_YesNoOnQuantity ==
    C10_Case =>
        LET q == C10_Top.inventory.quantity
            has(a) == \E i \in 1..Len(ab.answer) : ab.answer[i] = a
        IN  /\ (Head(ab.answer) \in C10_YesPhrases) <=> (q > 0)
            /\ (q > 0) => has(ToString(q))
            /\ (q = 0) => (Head(ab.answer) \in C10_NoPhrases /\ has("0") /\ ~has("N/A"))
            /\ has(C10_Top.sku)

C10_Witness == C10_Case /\ C10_Top.inventory.quantity = 0 /\ Len(ab.hits) = 2


(***************************************************************************)
(* SpecText: the response stream processor on bounded provider outputs     *)
(***************************************************************************)
\* what a provider fragment is made of: the two halves of <|im_end|>, a space, a
\* newline, a letter, a carriage return, a Cyrillic letter
Pieces ==
    {<<"<", "|", "i", "m", "_">>, <<"e", "n", "d", "|", ">">>, <<"SP">>, <<"LF">>, <<"a">>,
     <<"CR">>, <<"CYR">>}

Min(a, b) == IF a < b THEN a ELSE b

\* the texts made of 1..n pieces
PieceTexts(n) == UNION {{Concat(ps) : ps \in [1..k -> Pieces]} : k \in 1..n}

SpInit ==
    /\ sp \in [pc : {"ready"}, lang : Langs, mode : {NoValue}, budget : {MaxPieces},
               full : {<<>>}, sent : {<<>>}, lastIn : {<<>>}, lastOut : {<<>>},
               persisted : {<<>>}]
    /\ ab = AbIdle
    /\ ServerInit
    /\ fx = FxIdle
    /\ ui = IdleUi

\* route.ts 723-725: the streaming call is opened
SpOpenStream ==
    /\ sp.pc = "ready"
    /\ sp' = [sp EXCEPT !.pc = "streaming", !.mode = "stream"]
    /\ UNCHANGED <<fx, env, ab, dbVars, turns, api, ui>>

\* route.ts 727-732: the provider yields a fragment (never an empty one)
SpStreamChunk ==
    /\ sp.pc = "streaming"
    /\ sp.budget > 0
    /\ \E k \in 1..Min(sp.budget, MaxChunkPieces) : \E ps \in [1..k -> Pieces] :
          LET chunk == Concat(ps)
              step == StreamChunkStep(sp.full, chunk, sp.lang)
          IN  sp' = [sp EXCEPT !.budget = @ - k,
                               !.full = step.full,
                               !.sent = IF step.enqueue THEN @ \o step.cleaned ELSE @,
                               !.lastIn = chunk,
                               !.lastOut = step.cleaned]
    /\ UNCHANGED <<fx, env, ab, dbVars, turns, api, ui>>

\* route.ts 735-743: the provider stream ends, the final text is cleaned and persisted
SpStreamEnd ==
    /\ sp.pc = "streaming"
    /\ sp' = [sp EXCEPT !.pc = "done", !.persisted = postProcessAssistantText(sp.full, sp.lang)]
    /\ UNCHANGED <<fx, env, ab, dbVars, turns, api, ui>>

\* route.ts 798-811: the non-streaming call returns the whole text, cleaned and persisted
SpComplete ==
    /\ sp.pc = "ready"
    /\ \E raw \in PieceTexts(MaxPieces) \cup {<<>>} :
          sp' = [sp EXCEPT !.pc = "done", !.mode = "complete", !.lastIn = raw,
                           !.persisted = postProcessAssistantText(raw, sp.lang)]
    /\ UNCHANGED <<fx, env, ab, dbVars, turns, api, ui>>

TextNext == SpOpenStream \/ SpStreamChunk \/ SpStreamEnd \/ SpComplete

SpecText == SpInit /\ [][TextNext]_vars

\* C6 as stated: the persisted content of a completed streaming turn equals the
\* concatenation of the cleaned fragments streamed to the caller.
C6_PersistedEqualsStreamed ==
    (sp.pc = "done" /\ sp.mode = "stream") => sp.persisted = sp.sent

\* C6 amended: the persisted content is the final-text cleaning of the concatenation of
\* the cleaned fragments streamed to the caller.
C6_PersistedIsCleanedConcat ==
    (sp.pc = "done" /\ sp.mode = "stream")
        => sp.persisted = postProcessAssistantText(sp.sent, sp.lang)

C6_Witness ==
    sp.pc = "done" /\ sp.mode = "stream" /\ sp.sent # <<>> /\ sp.persisted # sp.sent

\* C7: the persisted final text contains none of the protocol tokens.
C7_NoProtocolToken ==
    sp.pc = "done" => \A tok \in ProtocolTokens : ~Contains(sp.persisted, tok)

WhitespaceOf(s) == SelectSeq(s, LAMBDA c : c \in {"SP", "TAB", "LF"})

\* C8: the cleaned fragment keeps every space, tab and newline of the fragment received.
C8_ChunkKeepsWhitespace ==
    sp.pc = "streaming" => WhitespaceOf(sp.lastOut) = WhitespaceOf(sp.lastIn)

(***************************************************************************)
(* The recommendation engine applied to prescriptions (recommendation.ts). *)
(* Powers are in hundredths of a dioptre. On values with two decimals the  *)
(* double sums sph + cyl differ from the decimal sums by less than one     *)
(* hundredth and never cross a threshold that the decimal sum does not     *)
(* cross, so the integer arithmetic gives the index the code gives.        *)
(***************************************************************************)
MaxQuarterSph == 36
MaxQuarterCyl == 12

SphValues == {25 * k : k \in (0 - MaxQuarterSph)..MaxQuarterSph}
CylValues == {25 * k : k \in (0 - MaxQuarterCyl)..MaxQuarterCyl}

Missing == [present |-> FALSE, value |-> 0]
Given(v) == [present |-> TRUE, value |-> v]
Optional(values) == {Missing} \cup {Given(v) : v \in values}

\* the Prescription objects a caller can pass: axis plays no part in the index
FieldPrescriptions(sphs, cyls) ==
    {[present |-> TRUE, sph |-> s, cyl |-> c, axis |-> Missing] : s \in sphs, c \in cyls}

NoPrescription == [present |-> FALSE, sph |-> Missing, cyl |-> Missing, axis |-> Missing]

NoRecommendation == [recommendedIndex |-> 0, wantBlueCut |-> FALSE, wantPhotochromic |-> FALSE]

RxTexts ==
    {<<"sph", "-2.50", "cyl", "-1.25", "axe", "180">>,
     <<"sph", "-6.00", "cyl", "-2.50", "ax", "180">>,
     <<"cyl", "-1.25">>,
     <<"axis", "180">>,
     <<"bonjour">>}

\* two prescriptions that share the cylinder, or one text
RxInit ==
    /\ \/ \E c \in Optional(CylValues) :
             fx \in [pc : {"fields"}, text : {<<>>},
                     a : FieldPrescriptions(Optional(SphValues), {c}),
                     b : FieldPrescriptions(Optional(SphValues), {c}),
                     outA : {NoRecommendation}, outB : {NoRecommendation}]
       \/ fx \in [pc : {"text"}, text : RxTexts, a : {NoPrescription}, b : {NoPrescription},
                  outA : {NoRecommendation}, outB : {NoRecommendation}]
    /\ ab = AbIdle
    /\ sp = SpIdle
    /\ ServerInit
    /\ ui = IdleUi

\* route.ts: parsePrescription(userText)
RxParse ==
    /\ fx.pc = "text"
    /\ fx' = [fx EXCEPT !.pc = "fields", !.a = parsePrescription(fx.text),
                        !.b = parsePrescription(fx.text)]
    /\ UNCHANGED <<env, ab, sp, dbVars, turns, api, ui>>

\* route.ts: recommendFromInputs({ prescription, needs: [] })
RxRecommend ==
    /\ fx.pc = "fields"
    /\ fx' = [fx EXCEPT !.pc = "done", !.outA = recommendFromInputs(fx.a),
                        !.outB = recommendFromInputs(fx.b)]
    /\ UNCHANGED <<env, ab, sp, dbVars, turns, api, ui>>

RxNext == RxParse \/ RxRecommend

SpecRx == RxInit /\ [][RxNext]_vars

RxDone == fx.pc = "done"

\* the value the engine reads for a field: a missing field counts as 0
FieldValue(f) == IF f.present THEN f.value ELSE 0

\* the two principal meridian powers of a prescription
PrincipalPowers(p) == {Abs(FieldValue(p.sph)), Abs(FieldValue(p.sph) + FieldValue(p.cyl))}

MaxOf(S) == CHOOSE x \in S : \A y \in S : y <= x

StepIndex(P) ==
    IF P <= 200 THEN 150
    ELSE IF P <= 350 THEN 156
    ELSE IF P <= 600 THEN 160
    ELSE IF P <= 800 THEN 167
    ELSE 174

\* C11 as stated: for a fixed cyl and two sph values with |sph1| <= |sph2| (any
\* signs) the index for (sph1, cyl) is at most the index for (sph2, cyl).
C11_MonotoneAnySigns ==
    (RxDone /\ fx.text = <<>> /\ fx.a.sph.present /\ fx.b.sph.present
       /\ Abs(fx.a.sph.value) <= Abs(fx.b.sph.value))
    => fx.outA.recommendedIndex <= fx.outB.recommendedIndex

\* sph has the sign of cyl, or one of them is zero
SameSign(s, c) == s * c >= 0

\* C11 (amended): for a fixed cyl and two sph values with |sph1| <= |sph2| that
\* both have the sign of cyl (zero counts as either sign), the index for
\* (sph1, cyl) is at most the index for (sph2, cyl), the high-cylinder bump
\* included.
C11_MonotoneSameSign ==
    (RxDone /\ fx.text = <<>> /\ fx.a.sph.present /\ fx.b.sph.present
       /\ Abs(fx.a.sph.value) <= Abs(fx.b.sph.value)
       /\ SameSign(fx.a.sph.value, FieldValue(fx.a.cyl))
       /\ SameSign(fx.b.sph.value, FieldValue(fx.b.cyl)))
    => fx.outA.recommendedIndex <= fx.outB.recommendedIndex

\* the bump acts on both prescriptions and raises the index with the sphere
C11_Witness ==
    /\ RxDone /\ fx.text = <<>>
    /\ fx.a.sph = Given(0) /\ fx.b.sph = Given(-200) /\ fx.a.cyl = Given(-225)
    /\ fx.outA.recommendedIndex = 167 /\ fx.outB.recommendedIndex = 174

ScenarioText == <<"sph", "-2.50", "cyl", "-1.25", "axe", "180">>

ScenarioParsed ==
    /\ RxDone /\ fx.text = ScenarioText
    /\ fx.a.sph = Given(-250) /\ fx.a.cyl = Given(-125) /\ fx.a.axis = Given(180)
    /\ PrincipalPowers(fx.a) = {250, 375}

\* C12 as stated: the text "SPH -2.50 CYL -1.25 AXE 180" parses to sph -2.5,
\* cyl -1.25, axis 180, the principal powers are 2.5 and 3.75, and the
\* recommended index is 1.56.
C12_ScenarioIndex156 ==
    (RxDone /\ fx.text = ScenarioText)
    => (ScenarioParsed /\ fx.outA.recommendedIndex = 156)

\* C12 (amended): the text "SPH -2.50 CYL -1.25 AXE 180" parses to sph -2.5,
\* cyl -1.25, axis 180, the principal powers are 2.5 and 3.75, and the
\* recommended index is 1.60 (3.75 is above 3.5 and at most 6).
C12_ScenarioIndex160 ==
    (RxDone /\ fx.text = ScenarioText)
    => (ScenarioParsed /\ fx.outA.recommendedIndex = 160)

C12_Witness == ScenarioParsed /\ fx.outA.recommendedIndex = 160

\* C13: for every prescription with sph or cyl present and |cyl| < 2, the
\* recommended index is the step function of P = max(|sph|, |sph + cyl|), a
\* missing field counting as 0: at most 2 gives 1.50, at most 3.5 gives 1.56, at
\* most 6 gives 1.60, at most 8 gives 1.67, above 8 gives 1.74.
C13_StepFunction ==
    RxDone =>
        \A r \in {<<fx.a, fx.outA>>, <<fx.b, fx.outB>>} :
            (r[1].present /\ (r[1].sph.present \/ r[1].cyl.present)
               /\ Abs(FieldValue(r[1].cyl)) < 200)
            => r[2].recommendedIndex = StepIndex(MaxOf(PrincipalPowers(r[1])))

\* sph = 0, cyl = 0 gives 1.50, and a sphere of 8.25 without cylinder gives 1.74
C13_Witness ==
    /\ RxDone
    /\ fx.a.sph = Given(0) /\ fx.a.cyl = Given(0) /\ fx.outA.recommendedIndex = 150
    /\ fx.b.sph = Given(825) /\ fx.outB.recommendedIndex = 174

(***************************************************************************)
(* The language detector applied to one text (language.ts). A word named   *)
(* ar_... holds Arabic-script characters; the other words are Latin.       *)
(***************************************************************************)
MaxLangWords == 3

LangWords == {"ar_marhaba", "ar_mutawaffir", "wesh", "quantite'", "bonjour", "vous",
              "hello", "price", "zeiss"}

RECURSIVE TextsUpTo(_, _)
TextsUpTo(words, n) ==
    IF n = 0 THEN {<<>>}
    ELSE LET shorter == TextsUpTo(words, n - 1)
         IN  shorter \cup {Append(t, w) : t \in shorter, w \in words}

LangInit ==
    /\ fx \in [pc : {"text"}, text : TextsUpTo(LangWords, MaxLangWords),
               out : {[lang |-> NoValue, confidence |-> NoValue]}]
    /\ ab = AbIdle
    /\ sp = SpIdle
    /\ ServerInit
    /\ ui = IdleUi

\* route.ts 483: detectLanguageInfo(userText)
LangDetect ==
    /\ fx.pc = "text"
    /\ fx' = [fx EXCEPT !.pc = "done", !.out = detectLanguageInfo(fx.text)]
    /\ UNCHANGED <<env, ab, sp, dbVars, turns, api, ui>>

LangNext == LangDetect

SpecLang == LangInit /\ [][LangNext]_vars

\* C14: a text that holds at least one Arabic-script character is detected as ar
\* with confidence high, whatever Latin content (Darija markers, French
\* accents, French or English keywords) it also holds.
C14_ArabicScriptWins ==
    (fx.pc = "done" /\ HasAny(fx.text, ArabicWords))
    => fx.out = [lang |-> "ar", confidence |-> "high"]

\* an Arabic word after a Darija marker and an accented French word
C14_Witness ==
    /\ fx.pc = "done"
    /\ fx.text = <<"wesh", "quantite'", "ar_mutawaffir">>
    /\ fx.out = [lang |-> "ar", confidence |-> "high"]

(***************************************************************************)
(* Claims on the language of a turn and of its session (Spec)              *)
(***************************************************************************)
\* a greeting-like text with low detection confidence and no explicit language request
LowConfidenceGreeting(text) ==
    /\ isGreetingLike(text)
    /\ detectLanguageInfo(text).confidence = "low"
    /\ detectExplicitLanguageRequest(text) = NoValue

\* C15: in a turn on an existing session whose stored language is L, a
\* greeting-like message with low detection confidence and no explicit
\* language request gets effective language L, and when the turn completes the
\* stored language of the session is still L.
C15_GreetingKeepsLanguage ==
    [][\A t \in TurnIds :
          (/\ turns[t].pc # "done" /\ turns'[t].pc = "done"
           /\ turns'[t].reqChatId # NoId
           /\ turns'[t].storedLang # NoValue
           /\ LowConfidenceGreeting(turns'[t].userText))
          => /\ turns'[t].lang = turns'[t].storedLang
             /\ chats'[turns'[t].chatId].language = turns'[t].storedLang]_vars

\* a session in ar, then "salam" (detected fr, low): the turn and the session stay in ar
C15_Witness ==
    \E t \in TurnIds :
        /\ turns[t].pc = "done"
        /\ turns[t].userText = <<"salam">>
        /\ turns[t].storedLang = "ar"
        /\ detectLanguageInfo(turns[t].userText) = [lang |-> "fr", confidence |-> "low"]
        /\ turns[t].lang = "ar"
        /\ chats[turns[t].chatId].language = "ar"

(***************************************************************************)
(* SpecDelete: two pages run edit-and-regenerate on the same session       *)
(* (part_005 721-750) up to the end of their DELETE loops. The session     *)
(* holds the messages of earlier turns, and both pages have loaded them.   *)
(***************************************************************************)
MaxSessionMsgs == 4
NumCallers == 2

Callers == 1..NumCallers

\* the messages of n earlier exchanges of session 1, as the turns persisted them
RECURSIVE SessionMsgs(_)
SessionMsgs(n) ==
    IF n = 0 THEN <<>>
    ELSE CreateMsg(SessionMsgs(n - 1), n, 1, IF n % 2 = 1 THEN "user" ELSE "assistant",
                   IF n % 2 = 1 THEN <<"bonjour">> ELSE <<"a">>)

IdleCaller == [pc |-> "idle", toDelete |-> <<>>]

DeleteInit ==
    /\ \E n \in 2..MaxSessionMsgs :
          /\ msgs = SessionMsgs(n)
          /\ nextMsgId = n
          /\ fx = [pc |-> "pages", loaded |-> SessionMsgs(n),
                   callers |-> [k \in Callers |-> IdleCaller], again |-> FALSE]
    /\ env \in [llmProvider : Providers]
    /\ chats = [c \in ChatIds |->
                   IF c = 1 THEN [exists |-> TRUE, title |-> <<"bonjour">>, language |-> "fr",
                                  summary |-> <<>>, updatedAt |-> 1]
                   ELSE NoChat]
    /\ memory = {}
    /\ turns = [t \in TurnIds |-> IdleTurn]
    /\ api = IdleApi
    /\ ab = AbIdle
    /\ sp = SpIdle
    /\ ui = IdleUi

\* part_005 721-745: the PATCH of the edited user message, and the ids of the messages
\* after it in the page
CallerEdit(k) ==
    \E idx \in 1..Len(fx.loaded), newText \in PatchContents :
        /\ fx.callers[k].pc = "idle"
        /\ fx.loaded[idx].role = "user"
        /\ MessagePATCH(1, fx.loaded[idx].id, newText)
        /\ fx' = [fx EXCEPT !.again = FALSE,
                            !.callers[k] =
                                IF api'.status # "ok" THEN [pc |-> "failed", toDelete |-> <<>>]
                                ELSE [pc |-> "deleting",
                                      toDelete |-> [i \in 1..(Len(fx.loaded) - idx) |->
                                                       fx.loaded[idx + i].id]]]
        /\ UNCHANGED <<env, ab, sp, memory, nextMsgId, turns, ui>>

\* part_005 747-750: one DELETE of the loop, its result ignored
CallerDelete(k) ==
    /\ fx.callers[k].pc = "deleting"
    /\ fx.callers[k].toDelete # <<>>
    /\ MessageDELETE(1, Head(fx.callers[k].toDelete))
    /\ fx' = [fx EXCEPT !.again = Head(fx.callers[k].toDelete) \notin MsgIds,
                        !.callers[k].toDelete = Tail(@)]
    /\ UNCHANGED <<env, ab, sp, memory, nextMsgId, turns, ui>>

\* part_005 752: the loop is over
CallerDeleted(k) ==
    /\ fx.callers[k].pc = "deleting"
    /\ fx.callers[k].toDelete = <<>>
    /\ fx' = [fx EXCEPT !.callers[k].pc = "posting"]
    /\ UNCHANGED <<env, ab, sp, dbVars, turns, api, ui>>

DeleteNext == \E k \in Callers : CallerEdit(k) \/ CallerDelete(k) \/ CallerDeleted(k)

SpecDelete == DeleteInit /\ [][DeleteNext]_vars

\* C16: a DELETE of a message that was already deleted reports success, and
\* leaves the session as the first delete left it.
C16_DeleteAgainSucceeds ==
    (api.op = "DELETE" /\ fx.pc = "pages" /\ fx.again) => api.status = "ok"

(***************************************************************************)
(* Claims on the rejected requests of the chat route (Spec)                *)
(***************************************************************************)
\* the request fails input validation (empty message list, userMessageId without
\* chatId) or ownership (userMessageId not found, of another session, not a user
\* message)
RequestRefused(T) ==
    \/ T.reqMessages = 0
    \/ /\ T.reqUserMessageId # NoId
       /\ \/ T.reqChatId = NoId
          \/ T.reqUserMessageId \notin MsgIds
          \/ \E i \in 1..Len(msgs) :
                /\ msgs[i].id = T.reqUserMessageId
                /\ (msgs[i].chatId # T.reqChatId \/ msgs[i].role # "user")

\* C17: a turn request refused for input validation or for ownership is
\* answered with an error and performs no write: no session, message or memory
\* record is created or changed.
C17_RefusedWritesNothing ==
    [][\A t \in TurnIds :
          (turns[t].pc = "requested" /\ turns'[t] # turns[t] /\ RequestRefused(turns[t]))
          => /\ turns'[t].pc = "rejected"
             /\ turns'[t].status \in {400, 404}
             /\ UNCHANGED dbVars]_vars

\* a request that names an assistant message of its session is refused with 404 while
\* the session and its two messages stay as the first turn left them
C17_Witness ==
    \E t \in TurnIds :
        /\ turns[t].pc = "rejected"
        /\ turns[t].status = 404
        /\ turns[t].reqMessages = 1
        /\ turns[t].reqChatId # NoId
        /\ \E i \in 1..Len(msgs) :
              /\ msgs[i].id = turns[t].reqUserMessageId
              /\ msgs[i].chatId = turns[t].reqChatId
              /\ msgs[i].role = "assistant"
        /\ Len(msgs) = 2

(***************************************************************************)
(* Claims on the failures of the provider (Spec)                           *)
(***************************************************************************)
\* C18: in a non-streaming turn every failure of the generative backend, a
\* connection failure or a response that is not 2xx, from either provider, is
\* answered with the provider-unavailable class of error, status 502.
C18_ProviderFailureIs502 ==
    \A t \in TurnIds :
        (turns[t].pc = "errored" /\ ~turns[t].stream) => turns[t].status = 502

(***************************************************************************)
(* SpecSession: DELETE /api/chats/[chatId] on a database that holds the    *)
(* sessions, messages and memory facts of earlier turns. A chat-scoped     *)
(* fact is written after the global fact lastLanguage, in a turn of its    *)
(* session (route.ts 669-676).                                             *)
(***************************************************************************)
MaxChatMsgs == 2
MaxSessionCalls == 2

ChatScope(c) == "chat:" \o ToString(c)

GlobalFact == [scope |-> "global", key |-> "lastLanguage", value |-> <<"fr">>]
ChatFact(c) == [scope |-> ChatScope(c), key |-> "prescription",
                value |-> <<"sph", "-250", "cyl", "-125">>]

\* n messages of session c, the ids following on from first
StoredMsgs(c, first, n) ==
    [i \in 1..n |-> [id |-> first + i, chatId |-> c,
                     role |-> IF i % 2 = 1 THEN "user" ELSE "assistant",
                     content |-> IF i % 2 = 1 THEN <<"bonjour">> ELSE <<"a">>]]

RECURSIVE StoredAll(_, _)
\* the messages of the sessions 1..c, count[c] messages each
StoredAll(count, c) ==
    IF c = 0 THEN <<>>
    ELSE LET before == StoredAll(count, c - 1)
         IN  before \o StoredMsgs(c, Len(before), count[c])

\* variant: the messages of the session are left in place
SessionDELETE_NoCascade(c) ==
    IF ~chats[c].exists
    THEN /\ api' = ApiResult("DELETE_SESSION", c, NoId, "error")
         /\ fx' = [fx EXCEPT !.removedMsgs = 0, !.removedFacts = 0]
         /\ UNCHANGED <<chats, msgs, memory>>
    ELSE /\ memory' = {r \in memory : r.scope # ChatScope(c)}
         /\ chats' = [chats EXCEPT ![c] = NoChat]
         /\ msgs' = msgs
         /\ fx' = [fx EXCEPT !.removedMsgs = Len(MsgsOf(c)),
                             !.removedFacts = Cardinality({r \in memory : r.scope = ChatScope(c)})]
         /\ api' = ApiResult("DELETE_SESSION", c, NoId, "ok")

\* chats/[chatId]/route.ts 67-76: one transaction deletes the facts of scope chat:<id> and
\* the session; the messages go with the session (ON DELETE CASCADE, part_002 13-21);
\* delete throws when the session does not exist, and the transaction is rolled back
SessionDELETE(c) ==
    IF ~chats[c].exists
    THEN /\ api' = ApiResult("DELETE_SESSION", c, NoId, "error")
         /\ fx' = [fx EXCEPT !.removedMsgs = 0, !.removedFacts = 0]
         /\ UNCHANGED <<chats, msgs, memory>>
    ELSE /\ memory' = {r \in memory : r.scope # ChatScope(c)}
         /\ chats' = [chats EXCEPT ![c] = NoChat]
         /\ msgs' = SelectSeq(msgs, LAMBDA m : m.chatId # c)
         /\ fx' = [fx EXCEPT !.removedMsgs = Len(MsgsOf(c)),
                             !.removedFacts = Cardinality({r \in memory : r.scope = ChatScope(c)})]
         /\ api' = ApiResult("DELETE_SESSION", c, NoId, "ok")

SessionInit ==
    /\ \E present \in [ChatIds -> BOOLEAN], count \in [ChatIds -> 0..MaxChatMsgs],
          facts \in SUBSET ({GlobalFact} \cup {ChatFact(c) : c \in ChatIds}) :
          /\ \A c \in ChatIds : ~present[c] => count[c] = 0
          /\ \A c \in ChatIds : ChatFact(c) \in facts => (count[c] > 0 /\ GlobalFact \in facts)
          /\ chats = [c \in ChatIds |->
                         IF present[c]
                         THEN [exists |-> TRUE, title |-> <<"bonjour">>, language |-> "fr",
                               summary |-> <<>>, updatedAt |-> 1]
                         ELSE NoChat]
          /\ msgs = StoredAll(count, MaxChats)
          /\ nextMsgId = Len(StoredAll(count, MaxChats))
          /\ memory = facts
    /\ fx = [pc |-> "sessions", removedMsgs |-> 0, removedFacts |-> 0]
    /\ env \in [llmProvider : Providers]
    /\ turns = [t \in TurnIds |-> IdleTurn]
    /\ api = IdleApi
    /\ ab = AbIdle
    /\ sp = SpIdle
    /\ ui = IdleUi

\* a client calls DELETE with any chat id
ApiDeleteSession ==
    \E c \in ChatIds :
        /\ api.count < MaxSessionCalls
        /\ SessionDELETE(c)
        /\ UNCHANGED <<env, ab, sp, nextMsgId, turns, ui>>

SessionNext == ApiDeleteSession

SpecSession == SessionInit /\ [][SessionNext]_vars

\* C19: after a session DELETE succeeds, no message of that session and no
\* memory fact of scope chat:<sessionId> exists, while the facts of scope
\* global and the messages, the memory and the record of every other session
\* are unchanged.
C19_DeleteCascadesAndFrames ==
    [][(api'.count # api.count /\ api'.op = "DELETE_SESSION" /\ api'.status = "ok")
       => LET c == api'.chatId
          IN  /\ ~chats'[c].exists
              /\ \A i \in 1..Len(msgs') : msgs'[i].chatId # c
              /\ \A r \in memory' : r.scope # ChatScope(c)
              /\ {r \in memory' : r.scope = "global"} = {r \in memory : r.scope = "global"}
              /\ \A d \in ChatIds \ {c} :
                    /\ chats'[d] = chats[d]
                    /\ SelectSeq(msgs', LAMBDA m : m.chatId = d)
                         = SelectSeq(msgs, LAMBDA m : m.chatId = d)
                    /\ {r \in memory' : r.scope = ChatScope(d)}
                         = {r \in memory : r.scope = ChatScope(d)}]_vars

\* session 1 is deleted with its two messages and its fact; session 2 keeps its
\* messages and its fact, and the global fact is kept
C19_Witness ==
    /\ fx.pc = "sessions"
    /\ api.op = "DELETE_SESSION" /\ api.status = "ok" /\ api.chatId = 1
    /\ fx.removedMsgs = 2 /\ fx.removedFacts = 1
    /\ ~chats[1].exists /\ MsgsOf(1) = <<>>
    /\ Len(MsgsOf(2)) = 2
    /\ memory = {GlobalFact, ChatFact(2)}

(***************************************************************************)
(* SpecPrompt: the system prompt of a generative turn (route.ts 501-532,   *)
(* 678-685, makeSystemPrompt 378-443, catalogSearch.ts 161-189). A line of *)
(* the prompt is a sequence of fields [k, v]; the fixed instructions of    *)
(* the prompt hold no value of the catalog and are one field "text".       *)
(***************************************************************************)
MaxPromptWords == 3

PromptWords == {"prix", "combien", "avez", "disponible", "stock", "zeiss", "verres", "?"}

Field(k, v) == [k |-> k, v |-> v]
TextLine(s) == <<Field("text", s)>>

\* prisma/seed.ts 100-210: the price of the inventory item of a lens, in cents
PriceCentsOf(sku) ==
    CASE sku = "ZEISS-AR-150" -> 450000
      [] sku = "ESSILOR-CRIZAL-160-BLUE" -> 890000
      [] sku = "HOYA-PHOTO-167" -> 980000
      [] sku = "DIST-PHOTO-174-CAR" -> 1350000
      [] sku = "HOYA-AR-156" -> 620000
      [] sku = "ZEISS-BLUE-156" -> 760000
      [] sku = "ESSILOR-PHOTO-160" -> 920000
      [] sku = "HOYA-HI-174-BLUE" -> 1450000

\* (priceCents / 100).toFixed(0) and Math.round(priceCents / 100): the seed prices are
\* whole dinars
Dinars(cents) == ToString(cents \div 100)

\* the text of a number given in hundredths, as a template literal prints it
NumberText(i) ==
    ToString(i \div 100) \o "."
      \o (IF i % 10 = 0 THEN ToString((i % 100) \div 10)
          ELSE ToString((i % 100) \div 10) \o ToString(i % 10))

YesNo(b) == IF b THEN "yes" ELSE "no"

\* variant: the stock field is written whatever the options
formatCatalogContextForPrompt_AlwaysStock(hits, includePrice, includeAvailability) ==
    IF hits = <<>> THEN <<TextLine("(Aucun produit trouve dans la base de donnees.)")>>
    ELSE [i \in 1..Len(hits) |->
            LET h == hits[i]
            IN  <<Field("n", ToString(i)), Field("SKU", h.sku), Field("brand", h.brand),
                  Field("family", h.family), Field("index", NumberText(h.index)),
                  Field("photo", YesNo(h.photochromic)), Field("blueCut", YesNo(h.blueCut))>>
                \o (IF includePrice
                    THEN <<Field("price", IF h.inventory.present
                                          THEN Dinars(PriceCentsOf(h.sku)) \o " DZD" ELSE "N/A")>>
                    ELSE <<>>)
                \o <<Field("stock", IF h.inventory.present
                                    THEN ToString(h.inventory.quantity) ELSE "N/A")>>]

\* catalogSearch.ts 161-189
formatCatalogContextForPrompt(hits, includePrice, includeAvailability) ==
    IF hits = <<>> THEN <<TextLine("(Aucun produit trouve dans la base de donnees.)")>>
    ELSE [i \in 1..Len(hits) |->
            LET h == hits[i]
            IN  <<Field("n", ToString(i)), Field("SKU", h.sku), Field("brand", h.brand),
                  Field("family", h.family), Field("index", NumberText(h.index)),
                  Field("photo", YesNo(h.photochromic)), Field("blueCut", YesNo(h.blueCut))>>
                \o (IF includePrice
                    THEN <<Field("price", IF h.inventory.present
                                          THEN Dinars(PriceCentsOf(h.sku)) \o " DZD" ELSE "N/A")>>
                    ELSE <<>>)
                \o (IF includeAvailability
                    THEN <<Field("stock", IF h.inventory.present
                                          THEN ToString(h.inventory.quantity) ELSE "N/A")>>
                    ELSE <<>>)]

\* route.ts 517-532: the aggregate over the active inventory items, <<>> when undefined
priceRangeText(includePrice) ==
    LET cents == {PriceCentsOf(Catalog[i].sku) : i \in 1..Len(Catalog)}
        min == CHOOSE x \in cents : \A y \in cents : x <= y
        max == CHOOSE x \in cents : \A y \in cents : y <= x
    IN  IF includePrice
        THEN <<Field("basic", Dinars(min) \o " DZD"), Field("premium", Dinars(max) \o " DZD")>>
        ELSE <<>>

\* route.ts 378-443: the lines that depend on the turn, after the fixed instructions
makeSystemPrompt(catalogContext, recommendation, rangeText, includePrice) ==
    <<TextLine("instructions"), TextLine("CATALOG_CONTEXT (compact lines):")>>
    \o catalogContext
    \o <<TextLine("RECOMMENDATION_NOTES:"),
         <<Field("Recommended index",
                 IF recommendation.recommendedIndex = 0 THEN "(unknown)"
                 ELSE NumberText(recommendation.recommendedIndex))>>>>
    \o (IF includePrice /\ rangeText # <<>>
        THEN <<TextLine("PRICE_RANGE_IN_DB:"), rangeText>>
        ELSE <<>>)

NoPrompt == <<>>

PromptInit ==
    /\ fx \in [pc : {"text"}, text : TextsUpTo(PromptWords, MaxPromptWords) \ {<<>>},
               prompt : {NoPrompt}]
    /\ ab = AbIdle
    /\ sp = SpIdle
    /\ ServerInit
    /\ ui = IdleUi

\* route.ts 572-666: an availability or quantity question is answered without a prompt
PromptSkipped ==
    /\ fx.pc = "text"
    /\ IsDeterministicTurn(getAvailabilityQuestionType(fx.text))
    /\ fx' = [fx EXCEPT !.pc = "deterministic"]
    /\ UNCHANGED <<env, ab, sp, dbVars, turns, api, ui>>

\* route.ts 501-532 and 678-685: the prompt of a generative turn
PromptBuilt ==
    LET recommendation == recommendFromInputs(parsePrescription(fx.text))
        availabilityQuestionType == getAvailabilityQuestionType(fx.text)
        intent == getCommercialIntent(fx.text)
        includeAvailability == intent.availability \/ availabilityQuestionType # NoValue
        includePrice == intent.price /\ availabilityQuestionType # "quantity"
        hits == searchCatalog(fx.text, recommendation)
        catalogContext == formatCatalogContextForPrompt(hits, includePrice, includeAvailability)
    IN  /\ fx.pc = "text"
        /\ ~IsDeterministicTurn(availabilityQuestionType)
        /\ fx' = [fx EXCEPT !.pc = "prompted",
                            !.prompt = makeSystemPrompt(catalogContext, recommendation,
                                                        priceRangeText(includePrice),
                                                        includePrice)]
        /\ UNCHANGED <<env, ab, sp, dbVars, turns, api, ui>>

PromptNext == PromptSkipped \/ PromptBuilt

SpecPrompt == PromptInit /\ [][PromptNext]_vars

\* the names of the fields of the prompt
PromptFieldNames ==
    UNION {{fx.prompt[i][j].k : j \in 1..Len(fx.prompt[i])} : i \in 1..Len(fx.prompt)}

\* C20: the catalog context of the prompt carries a price field only when the
\* turn has price intent and is not a quantity question, and a stock field only
\* when the turn has availability intent; the aggregate price range is in the
\* prompt only when price is included; with neither intent the prompt holds no
\* price and no stock value of the catalog.
C20_PromptFieldsFollowIntent ==
    fx.pc = "prompted" =>
        LET intent == getCommercialIntent(fx.text)
            priceIncluded == intent.price /\ getAvailabilityQuestionType(fx.text) # "quantity"
        IN  /\ "price" \in PromptFieldNames => priceIncluded
            /\ "stock" \in PromptFieldNames => intent.availability
            /\ ({"basic", "premium"} \cap PromptFieldNames # {}) => priceIncluded
            /\ (~intent.price /\ ~intent.availability)
               => PromptFieldNames \cap {"price", "stock", "basic", "premium"} = {}

\* a price request that is no availability question: price fields and the range, no stock
C20_Witness ==
    /\ fx.pc = "prompted"
    /\ fx.text = <<"prix", "zeiss", "verres">>
    /\ {"price", "basic", "premium"} \subseteq PromptFieldNames
    /\ "stock" \notin PromptFieldNames


(***************************************************************************)
(* SpecRegen: the page on a stored session. Session 1 holds one exchange   *)
(* of an earlier turn and the page has loaded it (part_005 413-424), so    *)
(* its messages carry their ids.                                           *)
(***************************************************************************)
RegenInit ==
    /\ env \in [llmProvider : Providers]
    /\ chats = [c \in ChatIds |->
                   IF c = 1 THEN [exists |-> TRUE, title |-> <<"bonjour">>, language |-> "fr",
                                  summary |-> <<>>, updatedAt |-> 1]
                   ELSE NoChat]
    /\ msgs = SessionMsgs(2)
    /\ nextMsgId = 2
    /\ memory = {}
    /\ turns = [t \in TurnIds |-> IdleTurn]
    /\ api = IdleApi
    /\ fx = FxIdle
    /\ ab = AbIdle
    /\ sp = SpIdle
    /\ ui = [IdleUi EXCEPT !.pc = "idle", !.selectedChatId = 1,
                           !.messages = [i \in 1..2 |->
                                            [id |-> SessionMsgs(2)[i].id,
                                             role |-> SessionMsgs(2)[i].role,
                                             content |-> SessionMsgs(2)[i].content]]]

SpecRegen == RegenInit /\ [][UiNext]_vars

\* C21: when regenerateAnswerFromAssistant on the assistant message a has completed and
\* its turn has persisted its answer, the messages of the session are the messages up to
\* and including the nearest user message before a, followed by one new assistant message.
C21_RegenerateRoundTrip ==
    LET S == ui.selectedChatId
        T == turns[ui.turn]
        n == Len(ui.before)
    IN  (ui.flow = "regen" /\ ui.completed /\ T.pc = "done")
            => /\ Len(MsgsOf(S)) = n + 1
               /\ IdsOf(SubSeq(MsgsOf(S), 1, n)) = IdsOf(ui.before)
               /\ MsgsOf(S)[n + 1].role = "assistant"
               /\ MsgsOf(S)[n + 1].id = T.assistantId


(***************************************************************************)
(* SpecHistory: the history a generative turn sends to the provider        *)
(* (route.ts 687-711). The session holds n messages in creation order, the *)
(* user message of the current turn last (route.ts 553-563); the contents  *)
(* are pairwise different so that the entries can be told apart.           *)
(***************************************************************************)
MaxStored == 16
HistoryTake == 14
HistoryKeep == 12

\* a timeline of n messages with a system message at position at (none if at = 0)
Timeline(n, at) ==
    [i \in 1..n |->
        [id |-> i, chatId |-> 1,
         role |-> IF i = at THEN "system"
                  ELSE IF i = n \/ (n - i) % 2 = 0 THEN "user" ELSE "assistant",
         content |-> <<"m", ToString(i)>>]]

\* route.ts 33-36
safeRole(role) == IF role \in {"user", "assistant", "system"} THEN role ELSE "user"

\* the last n entries of a list (slice(-n))
Last(list, n) == SubSeq(list, IF Len(list) > n THEN Len(list) - n + 1 ELSE 1, Len(list))

\* route.ts 687-692 and 704-707: findMany in ascending creation order with take: 14, the
\* system messages filtered out, the last 12 kept
historyOf(stored) ==
    LET recent == Take(stored, HistoryTake)
        visible == SelectSeq(recent, LAMBDA m : m.role # "system")
    IN  Last([i \in 1..Len(visible) |->
                 [role |-> safeRole(visible[i].role), content |-> visible[i].content]],
             HistoryKeep)

HistoryInit ==
    /\ \E n \in 1..MaxStored, at \in 0..(MaxStored - 1) :
          /\ at < n
          /\ msgs = Timeline(n, at)
          /\ nextMsgId = n
    /\ fx = [pc |-> "stored", history |-> <<>>]
    /\ env \in [llmProvider : Providers]
    /\ chats = [c \in ChatIds |->
                   IF c = 1 THEN [exists |-> TRUE, title |-> <<"bonjour">>, language |-> "fr",
                                  summary |-> <<>>, updatedAt |-> 1]
                   ELSE NoChat]
    /\ memory = {}
    /\ turns = [t \in TurnIds |-> IdleTurn]
    /\ api = IdleApi
    /\ ab = AbIdle
    /\ sp = SpIdle
    /\ ui = IdleUi

\* route.ts 687-711: the turn loads the history of session 1
HistoryLoad ==
    /\ fx.pc = "stored"
    /\ fx' = [fx EXCEPT !.pc = "loaded", !.history = historyOf(MsgsOf(1))]
    /\ UNCHANGED <<env, ab, sp, dbVars, turns, api, ui>>

HistoryNext == HistoryLoad

SpecHistory == HistoryInit /\ [][HistoryNext]_vars

\* the persisted non-system messages of session 1 as history entries
VisibleTimeline ==
    LET visible == SelectSeq(MsgsOf(1), LAMBDA m : m.role # "system")
    IN  [i \in 1..Len(visible) |-> [role |-> visible[i].role, content |-> visible[i].content]]

\* C22: the history is the last min(12, n) persisted non-system messages of the session
\* in creation order, and its last entry is the user message of the current turn.
C22_HistoryIsLatest ==
    fx.pc = "loaded"
        => /\ fx.history = Last(VisibleTimeline, HistoryKeep)
           /\ fx.history[Len(fx.history)].content = MsgsOf(1)[Len(MsgsOf(1))].content


\* the memory holds a fact of the scope and key
HasFact(scope, key) == \E f \in memory : f.scope = scope /\ f.key = key

\* C23: once a turn has completed, generative or deterministic, the memory holds the
\* global fact lastLanguage with the effective language of a turn that ran, and, when
\* the turn parsed a prescription, the fact prescription of the scope of its session.
C23_CompletedTurnUpsertsMemory ==
    \A t \in TurnIds :
        LET T == turns[t]
        IN  T.pc = "done"
                => /\ \E f \in memory :
                          /\ f.scope = "global" /\ f.key = "lastLanguage"
                          /\ \E u \in TurnIds : Started(u) /\ f.value = <<turns[u].lang>>
                   /\ parsePrescription(T.userText).present
                          => HasFact("chat:" \o ToString(T.chatId), "prescription")


(***************************************************************************)
(* SpecTitle: chat turns on a session created by POST /api/chats           *)
(* (chats/route.ts 26-44): its title is the one of the request, or the     *)
(* default "Nouveau chat"; it has no language, summary or message yet.     *)
(***************************************************************************)
DefaultTitle == <<"Nouveau chat">>

CreateTitles == {DefaultTitle, <<"verres", "zeiss">>}

TitleTexts == {<<"zeiss", "disponible", "?">>, <<"bonjour">>, <<"salam">>}

TitleInit ==
    /\ \E title \in CreateTitles :
          chats = [c \in ChatIds |->
                      IF c = 1 THEN [exists |-> TRUE, title |-> title, language |-> NoValue,
                                     summary |-> <<>>, updatedAt |-> 1]
                      ELSE NoChat]
    /\ env \in [llmProvider : Providers]
    /\ msgs = <<>>
    /\ memory = {}
    /\ nextMsgId = 0
    /\ turns = [t \in TurnIds |-> IdleTurn]
    /\ api = IdleApi
    /\ fx = FxIdle
    /\ ab = AbIdle
    /\ sp = SpIdle
    /\ ui = IdleUi

\* a client sends a message to session 1, one request at a time
TitleChat ==
    \E t \in TurnIds, text \in TitleTexts, stream \in BOOLEAN :
        /\ turns[t].pc = "idle"
        /\ \A u \in 1..(t - 1) : turns[u].pc \in FinalPcs
        /\ turns' = [turns EXCEPT ![t] = [@ EXCEPT !.pc = "requested", !.reqChatId = 1,
                                                   !.reqUserMessageId = NoId,
                                                   !.reqMessages = 1, !.reqText = text,
                                                   !.stream = stream]]
        /\ UNCHANGED <<fx, env, ab, sp, dbVars, api, ui>>

TitleNext ==
    \/ TitleChat
    \/ TurnBegin
    \/ TurnDetPersist
    \/ TurnOpenStream
    \/ TurnStreamChunk
    \/ TurnStreamFinish
    \/ TurnComplete

SpecTitle == TitleInit /\ [][TitleNext]_vars

\* C24: the step that completes a chat turn, generative or deterministic, replaces the
\* title of the session by the title derived from the user text when the title is
\* "Nouveau chat", and leaves any other title unchanged.
C24_TitleRule ==
    [][\A t \in TurnIds :
          (turns[t].pc # "done" /\ turns'[t].pc = "done")
              => chats'[turns[t].chatId].title =
                     IF chats[turns[t].chatId].title = DefaultTitle
                     THEN compactTitleFromUserText(turns[t].userText)
                     ELSE chats[turns[t].chatId].title]_vars


\* C25: the step that completes a turn that persisted its own user message leaves a
\* rolling summary whose latest entry is the pair of that turn, user text and answer each
\* clipped, whatever the earlier turns left in the session.
C25_SummaryHoldsLatestPair ==
    [][\A t \in TurnIds :
          (turns[t].pc # "done" /\ turns'[t].pc = "done" /\ turns[t].reqUserMessageId = NoId)
              => LET summary == chats'[turns[t].chatId].summary
                 IN  /\ summary # <<>>
                     /\ summary[Len(summary)] = [u |-> clip(turns[t].userText),
                                                 a |-> clip(turns'[t].persisted)]]_vars


(***************************************************************************)
(* SpecSearch: searchCatalog (catalogSearch.ts 54-122) on bounded texts    *)
(* and recommendations, over the seeded catalog                            *)
(***************************************************************************)
MaxSearchWords == 2

SearchWords == {"zeiss", "hoya", "photo", "bluecut", "1.60", "1.67", "1.74", "verres"}

\* the recommendations the chat route can pass: none, or the one of a parsed sphere
SearchRecommendations ==
    {NoRecommendation} \cup
    {recommendFromInputs(p) :
        p \in FieldPrescriptions({Given(-100), Given(-300), Given(-500), Given(-700), Given(-900)},
                                 {Missing})}

SearchInit ==
    /\ fx \in [pc : {"query"}, text : TextsUpTo(SearchWords, MaxSearchWords),
               recommendation : SearchRecommendations, hits : {<<>>}]
    /\ ab = AbIdle
    /\ sp = SpIdle
    /\ ServerInit
    /\ ui = IdleUi

\* catalogSearch.ts 54-122
SearchRun ==
    /\ fx.pc = "query"
    /\ fx' = [fx EXCEPT !.pc = "found", !.hits = searchCatalog(fx.text, fx.recommendation)]
    /\ UNCHANGED <<env, ab, sp, dbVars, turns, api, ui>>

SearchNext == SearchRun

SpecSearch == SearchInit /\ [][SearchNext]_vars

\* catalogSearch.ts 63-68: what the query of fx wants
WantPhoto == HasAny(fx.text, PhotoWords) \/ fx.recommendation.wantPhotochromic
WantBlue ==
    \/ HasAny(fx.text, BlueWords) \/ HasPair(fx.text, "blue", "cut")
    \/ HasPair(fx.text, "lumiere", "bleue") \/ fx.recommendation.wantBlueCut
IndexTarget ==
    IF extractDesiredIndex(fx.text) # 0 THEN extractDesiredIndex(fx.text)
    ELSE fx.recommendation.recommendedIndex

\* the score as the decimal value of its formula, in hundredths: 5 if in stock,
\* max(0, 4 - 10 * |index - target|) when a target exists, 2 per wanted feature present,
\* min(2, 0.25 * coatings)
DecimalScore(lens) ==
    LET closeness == 400 - Abs(lens.index - IndexTarget) * 10
    IN  (IF lens.inventory.present /\ lens.inventory.quantity > 0 THEN 500 ELSE 0)
        + (IF IndexTarget # 0 /\ closeness > 0 THEN closeness ELSE 0)
        + (IF WantPhoto /\ lens.photochromic THEN 200 ELSE 0)
        + (IF WantBlue /\ lens.blueCut THEN 200 ELSE 0)
        + (IF lens.nCoatings * 25 < 200 THEN lens.nCoatings * 25 ELSE 200)

\* the position of a product in the order of the query
QueryPosition(lens) == CHOOSE i \in 1..Len(Catalog) : Catalog[i].sku = lens.sku

\* C26: searchCatalog returns at most SearchLimit hits in the order of non-increasing
\* score, the hits of equal score in the order of the query.
C26_RankedAndStable ==
    fx.pc = "found"
        => /\ Len(fx.hits) <= SearchLimit
           /\ \A i, j \in 1..Len(fx.hits) :
                 i < j => \/ DecimalScore(fx.hits[i]) > DecimalScore(fx.hits[j])
                          \/ /\ DecimalScore(fx.hits[i]) = DecimalScore(fx.hits[j])
                             /\ QueryPosition(fx.hits[i]) < QueryPosition(fx.hits[j])


\* C27: a turn whose text carries price vocabulary (getCommercialIntent reports price) is
\* not classified "quantity", so it is not answered by the deterministic quantity path.
C27_PriceWinsOverQuantity ==
    (fx.pc = "deterministic" /\ getCommercialIntent(fx.text).price)
        => getAvailabilityQuestionType(fx.text) # "quantity"


(***************************************************************************)
(* SpecRequest: the language of a turn (route.ts 482-498) on bounded texts *)
(* and stored languages                                                    *)
(***************************************************************************)
MaxRequestWords == 2

RequestWords == {"english", "arabic", "en", "franc'ais", "darija", "ar_bildarija",
                 "bonjour", "salam", "zeiss"}

RequestInit ==
    /\ fx \in [pc : {"text"}, text : TextsUpTo(RequestWords, MaxRequestWords) \ {<<>>},
               storedLang : Langs \cup {NoValue}, lang : {NoValue}]
    /\ ab = AbIdle
    /\ sp = SpIdle
    /\ ServerInit
    /\ ui = IdleUi

\* route.ts 482-498
RequestLanguage ==
    /\ fx.pc = "text"
    /\ fx' = [fx EXCEPT !.pc = "done", !.lang = EffectiveLang(fx.text, fx.storedLang)]
    /\ UNCHANGED <<env, ab, sp, dbVars, turns, api, ui>>

RequestNext == RequestLanguage

SpecRequest == RequestInit /\ [][RequestNext]_vars

\* the language a text asks the answer in, by the phrases route.ts 129-147 lists as
\* requests, the Arabic-script ones included
RequestedLanguage(text) ==
    IF \/ HasPair(text, "en", "arabe") \/ HasPair(text, "arabe", "svp") \/ HasWord(text, "arabic")
       \/ HasAny(text, {"ar_bil3arabiya", "ar_3arabi"})
    THEN "ar"
    ELSE IF \/ HasPair(text, "en", "franc'ais") \/ HasPair(text, "en", "francais")
            \/ HasPair(text, "franc'ais", "svp") \/ HasPair(text, "francais", "svp")
            \/ HasPair(text, "in", "french") \/ HasPair(text, "french", "please")
    THEN "fr"
    ELSE IF HasPair(text, "en", "anglais") \/ HasWord(text, "english")
    THEN "en"
    ELSE IF HasAny(text, {"darija", "darja", "derja", "ar_bildarija"})
    THEN "dz"
    ELSE NoValue

\* C28: a text that asks for the answer in Arabic, French, English or Darija gets the
\* requested language as the language of the turn, whatever the detector returns,
\* whether or not the text is greeting-like and whatever the session has stored.
C28_ExplicitRequestWins ==
    (fx.pc = "done" /\ RequestedLanguage(fx.text) # NoValue)
        => fx.lang = RequestedLanguage(fx.text)


\* C29: once the page has read the response stream of a turn to its end, the assistant
\* message of the turn is persisted, so that the synchronisation issued then returns it.
C29_PersistedAtEndOfStream ==
    ui.completed => turns[ui.turn].assistantId # NoId


(***************************************************************************)
(* SpecRace: streaming generative turns and session DELETE calls on the    *)
(* same database. The ids of the sessions are unique (cuid): no session is *)
(* created once a DELETE was called, so that no id is given out twice.     *)
(***************************************************************************)
RaceTexts == {<<"sph", "-2.50", "cyl", "-1.25", "axe", "180">>, <<"bonjour">>}

RaceInit ==
    /\ ServerInit
    /\ fx = [pc |-> "race", removedMsgs |-> 0, removedFacts |-> 0]
    /\ ab = AbIdle
    /\ sp = SpIdle
    /\ ui = IdleUi

\* a client sends a message with stream: true, to a new session or to an existing one
RaceChat ==
    \E t \in TurnIds, text \in RaceTexts, c \in {NoId} \cup {d \in ChatIds : chats[d].exists} :
        /\ api.count = 0
        /\ turns[t].pc = "idle"
        /\ \A u \in 1..(t - 1) : turns[u].pc # "idle"
        /\ turns' = [turns EXCEPT ![t] = [@ EXCEPT !.pc = "requested", !.reqChatId = c,
                                                   !.reqUserMessageId = NoId,
                                                   !.reqMessages = 1, !.reqText = text,
                                                   !.stream = TRUE]]
        /\ UNCHANGED <<fx, env, ab, sp, dbVars, api, ui>>

\* chats/[chatId]/route.ts 67-76, called while turns are in flight
RaceDelete ==
    \E c \in ChatIds :
        /\ api.count < MaxSessionCalls
        /\ \A t \in TurnIds : turns[t].pc # "requested"
        /\ SessionDELETE(c)
        /\ UNCHANGED <<env, ab, sp, nextMsgId, turns, ui>>

\* route.ts 735-780 on sessions that exist
RaceStreamFinish ==
    /\ \A t \in TurnIds : turns[t].pc = "streaming" => chats[turns[t].chatId].exists
    /\ TurnStreamFinish

\* route.ts 736-743 and 781-783 on a session that was deleted: the insert of the
\* assistant message violates the foreign key of ChatMessage (part_002 20), the catch
\* puts the response stream in error
RaceStreamFailed ==
    \E t \in TurnIds :
        /\ turns[t].pc = "streaming"
        /\ ~chats[turns[t].chatId].exists
        /\ turns' = [turns EXCEPT ![t] =
                        [@ EXCEPT !.pc = "errored", !.streamError = ~turns[t].cancelled]]
        /\ UNCHANGED <<fx, env, ab, sp, dbVars, api, ui>>

RaceNext ==
    \/ RaceChat
    \/ RaceDelete
    \/ TurnBegin
    \/ TurnOpenStream
    \/ TurnStreamChunk
    \/ RaceStreamFinish
    \/ RaceStreamFailed

SpecRace == RaceInit /\ [][RaceNext]_vars

\* C30: every memory fact of a scope chat:<sessionId> refers to a session that exists.
C30_NoOrphanChatMemory ==
    \A f \in memory : \A c \in ChatIds : f.scope = ChatScope(c) => chats[c].exists

=============================================================================
